---- MODULE Spec2Model ----
(***************************************************************************)
(* A model of spec-tacles/proxy: the rate-limit gate (the process-local    *)
(* LocalRatelimiter and the Redis-backed RedisRatelimiter), the request    *)
(* executor that pairs claim and release around one HTTP call, the message *)
(* harness with its cancellation map, the route templater, the older       *)
(* executor with its shutdown, the two gates under the same calls, the     *)
(* consumer loop with the cancellation map by its keys, and the shared     *)
(* gate's broadcast channel among the publications of other workers.       *)
(*                                                                         *)
(* Granularity.  The code is async Rust on the tokio runtime.  A task can  *)
(* be suspended at every `.await`, and nowhere else, so an action of the   *)
(* model is the code that runs from one `.await` to the next.  Tasks run   *)
(* in parallel on the runtime's threads: where a task meets what another   *)
(* task changes twice with no `.await` in between (the reply of the claim  *)
(* script and the subscription to the broadcast channel; the insertion of  *)
(* a cancellation handle and the making of its Notified future), the two   *)
(* are actions of their own.                                               *)
(*                                                                         *)
(* Time.  Every Instant the code holds (the deadline of a tokio Delay, the *)
(* `now + duration` of a release) is kept as the number of clock ticks     *)
(* left until it; Tick counts them all down.  An instant that has passed   *)
(* is 0.  A timer may fire at its deadline or later.                       *)
(*                                                                         *)
(* Option<T> values are modelled as sets: {} is None and {v} is Some(v).   *)
(***************************************************************************)
EXTENDS Integers, Sequences, FiniteSets, TLC

(***************************************************************************)
(* Bounds of the model.                                                    *)
(***************************************************************************)
\* The number of claim and release calls issued in one run.
MaxOps == 6
Tasks == {"t1", "t2"}
Buckets == {"foo", "bar"}
\* The bucket the callers of the gate's own test suite use.
Called == {"foo"}
\* RatelimitInfo.limit and RatelimitInfo.resets_in as Option values.
Limits == {{}, {1}, {2}}
\* The length of a rate-limit window (resets_in), in clock ticks.
Window == 1
ResetsIn == {{}, {Window}}
\* The owner name of a bucket's window timer task in the timer-slot mutex.
TimerTask == "timer"
\* The number of calls issued on the shared gate when both buckets are used.
MaxSharedOps == 4
\* The number of calls and timer firings that are applied to both gates.
MaxTwinOps == 5
\* The number of interrupt signals the process is sent.
MaxSignals == 2
\* A path string is a sequence of tokens: the character "/" or a word that
\* holds no "/".  MaxLen is the number of tokens of the longest one.
MaxLen == 6
Tokens == {"/", "guilds", "channels", "webhooks", "users", "1", "2"}

VARIABLES
    gate,        \* which Ratelimiter the process was started with
    pc,          \* where each task is suspended
    arg,         \* the arguments of the gate call each task is in
    nops,        \* the number of gate calls issued so far
    obs,         \* per bucket: what the callers of the gate have observed
    buckets,     \* LocalRatelimiter.buckets: the names that have a Bucket
    ready,       \* Bucket.ready: the semaphore's available permits
    size,        \* Bucket.size
    new_timeout, \* Bucket.new_timeout holds Some(sender)
    slot_lock,   \* the FIFO of owners of the new_timeout mutex; its head holds it
    timer,       \* the window timer task of each bucket
    store,       \* the Redis keys <bucket> and <bucket>_size, and the key's TTL
    pubsub,      \* rest_ready messages on their way to the process
    inbox,       \* per task: the broadcast receiver of a claim that waits
    executor,    \* which Client runs the messages
    msg,         \* per task: the bus message it handles, and what happened to it
    calc,        \* a call of one of the pure functions: its input and result
    cancel       \* per task: the cancellation handle of its message

vars == <<gate, pc, arg, nops, obs, buckets, ready, size, new_timeout,
          slot_lock, timer, store, pubsub, inbox, executor, msg, calc, cancel>>

execVars == <<executor, msg, calc, cancel>>

localVars == <<buckets, ready, size, new_timeout, slot_lock, timer>>

sharedVars == <<store, pubsub, inbox>>

(***************************************************************************)
(* RatelimitInfo and the arguments of a call.                              *)
(***************************************************************************)
RatelimitInfo == [limit : Limits, resets_in : ResetsIn]

NoInfo == [limit |-> {}, resets_in |-> {}]

NoArg == [bucket |-> "foo", info |-> NoInfo, deadline |-> 0]

(***************************************************************************)
(* What a caller of the gate can observe on a bucket, in the order it      *)
(* happens: a release being called, a claim that returned Ok or Err, a     *)
(* release that returned Ok or Err or panicked, the window refill.         *)
(***************************************************************************)
CallEv(info) == [e |-> "call", info |-> info]

ClaimEv == [e |-> "claim", info |-> NoInfo]

ClaimErrEv == [e |-> "claim_err", info |-> NoInfo]

ReleaseEv(info) == [e |-> "release", info |-> info]

ReleaseErrEv(info) == [e |-> "release_err", info |-> info]

PanicEv(info) == [e |-> "panic", info |-> info]

FireEv == [e |-> "fire", info |-> NoInfo]

(***************************************************************************)
(* The scenarios of the gate's test suite (src/src/ratelimiter.rs), as     *)
(* sequences of events on one fresh bucket.  A duration of Window ticks    *)
(* stands for the tests' 5000 ms.                                          *)
(***************************************************************************)
Info(limit, resets_in) == [limit |-> limit, resets_in |-> resets_in]

claim_release == <<ClaimEv, ReleaseEv(NoInfo), ClaimEv>>

claim_timeout_release ==
    <<ClaimEv, ReleaseEv(Info({}, {Window})), ClaimEv, FireEv, ClaimEv>>

claim_limit_release ==
    <<ClaimEv, ReleaseEv(Info({2}, {})), ClaimEv, ClaimEv,
      ReleaseEv(Info({2}, {})), ClaimEv>>

claim_limit_timeout ==
    <<ClaimEv, ReleaseEv(Info({2}, {Window})), ClaimEv, ClaimEv, FireEv, ClaimEv>>

claim_limit_release_timeout ==
    <<ClaimEv, ReleaseEv(Info({2}, {Window})), ClaimEv, ClaimEv,
      ReleaseEv(Info({2}, {Window})), FireEv, ClaimEv>>

Scenarios ==
    {claim_release, claim_timeout_release, claim_limit_release,
     claim_limit_timeout, claim_limit_release_timeout}

IsPrefix(s, sc) == Len(s) <= Len(sc) /\ \A i \in 1..Len(s) : s[i] = sc[i]

\* The value of `trace` once a bucket's events leave every scenario.
OffScenario == <<[e |-> "off", info |-> NoInfo]>>

TraceStep(trace, ev) ==
    IF ev.e = "call" THEN trace
    ELSE IF trace # OffScenario /\ \E sc \in Scenarios : IsPrefix(Append(trace, ev), sc)
         THEN Append(trace, ev)
         ELSE OffScenario

(***************************************************************************)
(* The observer of a bucket: how far its events follow a scenario; the     *)
(* outstanding units (the claims that returned minus the releases that     *)
(* returned Ok); whether a release was called at all, whether one returned *)
(* Ok, whether one carrying limit or resets_in was called, whether the     *)
(* window was refilled, whether a claim returned, whether a release ever   *)
(* returned Ok with no unit outstanding; `due`, the ticks left             *)
(* until t0 + D of the first release(b, {resets_in: D}), called at t0 (-1  *)
(* before it); `since`, the claims that returned since the last refill     *)
(* with no release after it (-1 outside such a stretch).                   *)
(***************************************************************************)
NoObs ==
    [trace |-> <<>>, outstanding |-> 0,
     called |-> FALSE, released |-> FALSE, informed |-> FALSE, fired |-> FALSE,
     claimed |-> FALSE, overdrawn |-> FALSE, due |-> -1, since |-> -1]

ObsStep(o, ev) ==
    [trace       |-> TraceStep(o.trace, ev),
     outstanding |-> CASE ev.e = "claim"   -> o.outstanding + 1
                       [] ev.e = "release" -> o.outstanding - 1
                       [] OTHER            -> o.outstanding,
     called      |-> o.called \/ ev.e = "call",
     released    |-> o.released \/ ev.e = "release",
     informed    |-> o.informed \/ (ev.e = "call" /\ ev.info # NoInfo),
     fired       |-> o.fired \/ ev.e = "fire",
     claimed     |-> o.claimed \/ ev.e = "claim",
     overdrawn   |-> o.overdrawn \/ (ev.e = "release" /\ o.outstanding <= 0),
     due         |-> IF ev.e = "call" /\ ev.info.resets_in # {} /\ o.due = -1
                     THEN CHOOSE d \in ev.info.resets_in : TRUE
                     ELSE o.due,
     since       |-> CASE ev.e = "fire"                   -> 0
                       [] ev.e = "claim" /\ o.since >= 0  -> o.since + 1
                       [] ev.e = "release"                -> -1
                       [] OTHER                           -> o.since]

Observe(b, ev) == obs' = [obs EXCEPT ![b] = ObsStep(@, ev)]

(***************************************************************************)
(* The window timer task of a bucket: absent ("none"), in its select loop  *)
(* ("running"), or past its deadline and waiting for the timer-slot lock   *)
(* ("fired").  `delay` is the instant it sleeps until; `chan` is its       *)
(* mpsc channel of new deadlines.                                          *)
(***************************************************************************)
NoTimer == [state |-> "none", delay |-> 0, chan |-> <<>>]

\* mpsc::channel(1)
TimerChannelCapacity == 1

(***************************************************************************)
(* Bucket::default                                                         *)
(***************************************************************************)
DefaultPermits == 1

DefaultSize == 1

\* A message before its handler ran.  `data` is "missing", "invalid" (no
\* request can be built from it) or the bucket its path maps to; `timed`
\* tells whether a timeout applies; `route` is Some(bucket) once make_route
\* returned; `res` is the outcome of the HTTP call.  The rest records what
\* the bus and the gate saw: the acknowledgements, whether one came before
\* claim returned, whether claim returned Ok, the release calls and their
\* bucket, the reply.  `err` is the type of the error do_request has met
\* so far, `gateErr` tells which call of the gate returned an error,
\* `calls` counts the HTTP calls issued, `elapsed` tells that the timeout
\* expired, `status` is the ResponseStatus of the reply.
NoMsg ==
    [data |-> "missing", timed |-> FALSE, route |-> {}, res |-> "none",
     acks |-> 0, earlyAck |-> FALSE, claimOk |-> FALSE,
     releases |-> 0, releasedOn |-> {}, replied |-> FALSE,
     err |-> "none", gateErr |-> "none", calls |-> 0, elapsed |-> FALSE,
     status |-> "none"]

\* No pure function is being called.
NoCalc == [fn |-> "none", in |-> <<>>, out |-> {}]

\* The gate as its constructor leaves it.  src/src/main.rs get_ratelimiter:
\* a Redis configuration selects the RedisRatelimiter, none the
\* LocalRatelimiter.
InitGate ==
    /\ gate \in {"local", "shared"}
    /\ arg = [t \in Tasks |-> NoArg]
    /\ nops = 0
    /\ obs = [b \in Buckets |-> NoObs]
    /\ buckets = {}
    /\ ready = [b \in Buckets |-> DefaultPermits]
    /\ size = [b \in Buckets |-> DefaultSize]
    /\ new_timeout = [b \in Buckets |-> FALSE]
    /\ slot_lock = [b \in Buckets |-> <<>>]
    /\ timer = [b \in Buckets |-> NoTimer]
    /\ store = [b \in Buckets |-> [remaining |-> {}, size |-> {}, ttl |-> {}]]
    /\ pubsub = <<>>
    /\ inbox = [t \in Tasks |-> <<>>]
    /\ msg = [t \in Tasks |-> NoMsg]

\* The gate alone, with tasks that call claim and release as they like.
Init ==
    /\ InitGate
    /\ executor = "runtime"
    /\ pc = [t \in Tasks |-> "idle"]
    /\ calc = NoCalc
    /\ cancel = [t \in Tasks |-> "none"]

(***************************************************************************)
(* LocalRatelimiter::claim                                                 *)
(***************************************************************************)
\* Lines 47-49: take the write lock, get or insert the bucket, drop the lock.
LocalClaimEnter(t, b, from) ==
    /\ gate = "local"
    /\ pc[t] = from
    /\ nops < MaxOps
    /\ nops' = nops + 1
    /\ buckets' = buckets \cup {b}
    /\ arg' = [arg EXCEPT ![t] = [bucket |-> b, info |-> NoInfo, deadline |-> 0]]
    /\ pc' = [pc EXCEPT ![t] = "claim_acquire"]
    /\ UNCHANGED <<gate, sharedVars, obs, ready, size, new_timeout, slot_lock, timer>>

\* A claim that returns without taking a permit.
AcquireKeep(b) == ready' = ready

\* Line 51: the permit is taken from the semaphore and forgotten.
AcquireForget(b) == ready' = [ready EXCEPT ![b] = @ - 1]

\* A claim that returns whether or not a permit is there, and takes one
\* only when there is one.
LocalClaimAcquireAny(t, ret) ==
    /\ gate = "local"
    /\ pc[t] = "claim_acquire"
    /\ ready' = [ready EXCEPT ![arg[t].bucket] = IF @ > 0 THEN @ - 1 ELSE @]
    /\ Observe(arg[t].bucket, ClaimEv)
    /\ pc' = [pc EXCEPT ![t] = ret]
    /\ arg' = [arg EXCEPT ![t] = NoArg]
    /\ UNCHANGED <<gate, sharedVars, nops, buckets, size, new_timeout, slot_lock, timer>>

\* Lines 51-54: acquire one permit, forget it, return Ok.
LocalClaimAcquire(t, ret) ==
    /\ gate = "local"
    /\ pc[t] = "claim_acquire"
    /\ ready[arg[t].bucket] > 0
    /\ AcquireForget(arg[t].bucket)
    /\ Observe(arg[t].bucket, ClaimEv)
    /\ pc' = [pc EXCEPT ![t] = ret]
    /\ arg' = [arg EXCEPT ![t] = NoArg]
    /\ UNCHANGED <<gate, sharedVars, nops, buckets, size, new_timeout, slot_lock, timer>>

(***************************************************************************)
(* LocalRatelimiter::release                                               *)
(***************************************************************************)
\* Duration::from_millis(resets_in) from now, as ticks left; 0 for None.
InstantAfter(resets_in) ==
    IF resets_in = {} THEN 0 ELSE CHOOSE d \in resets_in : TRUE

\* Lines 60-73.  `now` is read when release is called, so the
\* `now + duration` of line 91 is an instant fixed here.  The bucket is
\* looked up under the read lock: release fails when it is missing, and
\* otherwise queues for the timer-slot mutex.
LocalReleaseEnter(t, b, info, from, retErr) ==
    /\ gate = "local"
    /\ pc[t] = from
    /\ nops < MaxOps
    /\ nops' = nops + 1
    /\ IF b \notin buckets
       THEN /\ obs' = [obs EXCEPT ![b] = ObsStep(ObsStep(@, CallEv(info)), ReleaseErrEv(info))]
            /\ pc' = [pc EXCEPT ![t] = retErr]
            /\ UNCHANGED <<slot_lock, arg>>
       ELSE /\ slot_lock' = [slot_lock EXCEPT ![b] = Append(@, t)]
            /\ pc' = [pc EXCEPT ![t] = "release_lock"]
            /\ arg' = [arg EXCEPT ![t] =
                   [bucket |-> b, info |-> info, deadline |-> InstantAfter(info.resets_in)]]
            /\ Observe(b, CallEv(info))
    /\ UNCHANGED <<gate, sharedVars, buckets, ready, size, new_timeout, timer>>

\* A release that never gives the permit back.
PermitsKept(b) == ready[b]

\* A release that adds its permit whatever the timer slot holds.
PermitsAlways(b) == ready[b] + 1

\* Lines 75-78: with no sender in the timer slot, one permit is added.
PermitsAfterNoTimeout(b) ==
    IF new_timeout[b] THEN ready[b] ELSE ready[b] + 1

\* A window timer that adds nothing.
PermitsUnfilled(b) == ready[b]

\* Line 109: the window timer adds `size` permits.
PermitsAfterFire(b) == ready[b] + size[b]

\* Lines 121-129: swap the size, add the difference.  `size - old_size` is
\* a usize subtraction: when the new size is smaller it overflows, which
\* panics in a debug build ("panic") and wraps in a release build ("wrap",
\* where add_permits then gets a number near usize::MAX).
UsizeModulus == 65536

LimitOutcomes(b, info) ==
    IF info.limit = {} THEN {"none"}
    ELSE IF \E s \in info.limit : s >= size[b] THEN {"grow"}
    ELSE {"panic", "wrap"}

SizeAfterLimit(b, info) ==
    IF info.limit = {} THEN size[b] ELSE CHOOSE s \in info.limit : TRUE

\* A release that stores the new size and adds no permit for it.
PermitsWithoutLimit(b, info, permits, outcome) == permits

PermitsAfterLimit(b, info, permits, outcome) ==
    LET diff == SizeAfterLimit(b, info) - size[b] IN
    CASE outcome = "none"  -> permits
      [] outcome = "grow"  -> permits + diff
      [] outcome = "panic" -> permits
      [] outcome = "wrap"  -> (permits + UsizeModulus + diff) % UsizeModulus

\* Lines 121-131 and the drop of the mutex guard: the end of release.
LocalReleaseFinish(t, b, permits, retOk) ==
    \E outcome \in LimitOutcomes(b, arg[t].info) :
        /\ size' = [size EXCEPT ![b] = SizeAfterLimit(b, arg[t].info)]
        /\ ready' = [ready EXCEPT ![b] = PermitsAfterLimit(b, arg[t].info, permits, outcome)]
        /\ slot_lock' = [slot_lock EXCEPT ![b] = Tail(@)]
        /\ arg' = [arg EXCEPT ![t] = NoArg]
        /\ IF outcome = "panic"
           THEN /\ pc' = [pc EXCEPT ![t] = "panicked"]
                /\ Observe(b, PanicEv(arg[t].info))
           ELSE /\ pc' = [pc EXCEPT ![t] = retOk]
                /\ Observe(b, ReleaseEv(arg[t].info))

\* Lines 73-131, entered when the task holds the timer-slot mutex.
LocalReleaseBody(t, retOk) ==
    LET b == arg[t].bucket
        info == arg[t].info
        permits == PermitsAfterNoTimeout(b)
    IN
    /\ gate = "local"
    /\ pc[t] = "release_lock"
    /\ Head(slot_lock[b]) = t
    /\ IF info.resets_in = {}
       THEN /\ LocalReleaseFinish(t, b, permits, retOk)
            /\ UNCHANGED <<new_timeout, timer>>
       ELSE \E resets_in \in info.resets_in :
            IF new_timeout[b]
            THEN \* Some(sender): send the new deadline, lines 89-92
                 IF Len(timer[b].chan) < TimerChannelCapacity
                 THEN /\ timer' = [timer EXCEPT ![b].chan = Append(@, arg[t].deadline)]
                      /\ LocalReleaseFinish(t, b, permits, retOk)
                      /\ UNCHANGED new_timeout
                 ELSE \* the channel is full: send().await suspends
                      /\ pc' = [pc EXCEPT ![t] = "release_send"]
                      /\ UNCHANGED <<obs, arg, ready, size, new_timeout, slot_lock, timer>>
            ELSE \* None: spawn the window timer, lines 93-117
                 /\ timer' = [timer EXCEPT ![b] =
                        [state |-> "running", delay |-> resets_in, chan |-> <<>>]]
                 /\ new_timeout' = [new_timeout EXCEPT ![b] = TRUE]
                 /\ LocalReleaseFinish(t, b, permits, retOk)
    /\ UNCHANGED <<gate, sharedVars, nops, buckets>>

\* Line 91 resumed: the channel has room again.
LocalReleaseSend(t, retOk) ==
    LET b == arg[t].bucket IN
    /\ gate = "local"
    /\ pc[t] = "release_send"
    /\ Len(timer[b].chan) < TimerChannelCapacity
    /\ timer' = [timer EXCEPT ![b].chan = Append(@, arg[t].deadline)]
    /\ LocalReleaseFinish(t, b, ready[b], retOk)
    /\ UNCHANGED <<gate, sharedVars, nops, buckets, new_timeout>>

(***************************************************************************)
(* The window timer task, lines 99-115.                                    *)
(***************************************************************************)
\* Lines 102-105: a new deadline arrives.
TimerReceive(b) ==
    /\ timer[b].state = "running"
    /\ timer[b].chan # <<>>
    /\ timer' = [timer EXCEPT ![b].delay = Head(timer[b].chan),
                              ![b].chan = Tail(timer[b].chan)]
    /\ UNCHANGED <<gate, sharedVars, pc, arg, nops, obs, buckets, ready, size,
                   new_timeout, slot_lock>>

\* Lines 106-110: the delay elapsed; add the permits, queue for the mutex.
TimerFire(b) ==
    /\ timer[b].state = "running"
    /\ timer[b].delay = 0
    /\ ready' = [ready EXCEPT ![b] = PermitsAfterFire(b)]
    /\ timer' = [timer EXCEPT ![b].state = "fired"]
    /\ slot_lock' = [slot_lock EXCEPT ![b] = Append(@, TimerTask)]
    /\ Observe(b, FireEv)
    /\ UNCHANGED <<gate, sharedVars, pc, arg, nops, buckets, size, new_timeout>>

\* Lines 110-111: clear the timer slot under the mutex and exit.
TimerClear(b) ==
    /\ timer[b].state = "fired"
    /\ Head(slot_lock[b]) = TimerTask
    /\ new_timeout' = [new_timeout EXCEPT ![b] = FALSE]
    /\ slot_lock' = [slot_lock EXCEPT ![b] = Tail(@)]
    /\ timer' = [timer EXCEPT ![b] = NoTimer]
    /\ UNCHANGED <<gate, sharedVars, pc, arg, nops, obs, buckets, ready, size>>

(***************************************************************************)
(* The shared store.  The two Lua scripts (scripts/claim.lua and           *)
(* scripts/release.lua) are not part of the sources; they are modelled     *)
(* from the specification of the shared gate and from the Redis tests of   *)
(* the gate.  Per bucket the store holds the key <bucket> (`remaining`,    *)
(* the permits left in the window), the key <bucket>_size (`size`) and the *)
(* key's time to live (`ttl`).                                             *)
(***************************************************************************)
StoredSize(k) == IF k.size = {} THEN DefaultSize ELSE CHOOSE n \in k.size : TRUE

StoredRemaining(k) == IF k.remaining = {} THEN 0 ELSE CHOOSE n \in k.remaining : TRUE

\* The window of a bucket has run out and the store has not refilled it yet.
RefillDue(b) == store[b].ttl = {0}

\* The claim script's reply: 0 grants a permit, a positive number is the
\* time until the window resets, a negative one means "wait for rest_ready".
ClaimScriptReply(k) ==
    IF k.remaining = {} THEN 0
    ELSE IF StoredRemaining(k) > 0 THEN 0
    ELSE IF k.ttl # {} THEN CHOOSE d \in k.ttl : TRUE
    ELSE 0 - 1

\* The claim script's write: a missing key starts a window of `size`
\* permits; a permit that is granted is taken off the key.
ClaimScriptStore(k) ==
    IF k.remaining = {} THEN [k EXCEPT !.remaining = {StoredSize(k) - 1}]
    ELSE IF StoredRemaining(k) > 0 THEN [k EXCEPT !.remaining = {StoredRemaining(k) - 1}]
    ELSE k

\* The release script gives one permit back when no window is running or
\* when the release carries no information.
ReleaseGivesBack(k, info) == k.ttl = {} \/ info = NoInfo

\* The release script's write: limit sets the size and moves the permits
\* by the difference, resets_in sets the key's time to live.
ReleaseScriptStore(k, info) ==
    LET newSize == IF info.limit = {} THEN StoredSize(k) ELSE CHOOSE n \in info.limit : TRUE
        back == IF ReleaseGivesBack(k, info) THEN 1 ELSE 0
    IN [remaining |-> {StoredRemaining(k) + back + (newSize - StoredSize(k))},
        size      |-> IF info.limit = {} THEN k.size ELSE info.limit,
        ttl       |-> IF info.resets_in = {} THEN k.ttl ELSE info.resets_in]

\* The store refills a bucket whose window ran out and announces it.
StoreRefill(b) ==
    /\ gate = "shared"
    /\ RefillDue(b)
    /\ store' = [store EXCEPT ![b] = [remaining |-> {StoredSize(store[b])}, size |-> store[b].size, ttl |-> {}]]
    /\ pubsub' = Append(pubsub, b)
    /\ Observe(b, FireEv)
    /\ UNCHANGED <<gate, pc, arg, nops, localVars, inbox>>

\* redis.rs line 32: broadcast::channel(32).  The channel keeps the last
\* 32 values; a receiver that has more than that unread has lagged, and
\* its next recv() returns RecvError::Lagged (`inbox[t]` is <<"Lagged">>).
BroadcastCapacity == 32

(***************************************************************************)
(* RedisRatelimiter (src/core/src/ratelimiter/redis.rs)                    *)
(***************************************************************************)
\* Lines 35-39: the task that forwards every rest_ready message of the
\* pub/sub connection to the receivers subscribed at that moment.
PubSubForward ==
    /\ gate = "shared"
    /\ pubsub # <<>>
    /\ pubsub' = Tail(pubsub)
    /\ inbox' = [t \in Tasks |->
                    IF pc[t] # "claim_recv" \/ inbox[t] = <<"Lagged">> THEN inbox[t]
                    ELSE IF Len(inbox[t]) = BroadcastCapacity THEN <<"Lagged">>
                    ELSE Append(inbox[t], Head(pubsub))]
    /\ UNCHANGED <<gate, pc, arg, nops, obs, localVars, store>>

\* Line 51: claim is called.
SharedClaimEnter(t, b, from) ==
    /\ gate = "shared"
    /\ pc[t] = from
    /\ nops < MaxOps
    /\ nops' = nops + 1
    /\ arg' = [arg EXCEPT ![t] = [bucket |-> b, info |-> NoInfo, deadline |-> 0]]
    /\ pc' = [pc EXCEPT ![t] = "claim_script"]
    /\ UNCHANGED <<gate, obs, localVars, sharedVars>>

\* A claim that keeps the connection mutex while it sleeps or waits for a
\* message: no other call reaches the store meanwhile.
SharedClaimInvokeLocked(t, ret) ==
    LET b == arg[t].bucket
        expiration == ClaimScriptReply(store[b])
    IN
    /\ gate = "shared"
    /\ pc[t] = "claim_script"
    /\ \A u \in Tasks : pc[u] \notin {"claim_sleep", "claim_subscribe", "claim_recv"}
    /\ ~RefillDue(b)
    /\ store' = [store EXCEPT ![b] = ClaimScriptStore(@)]
    /\ IF expiration > 0
       THEN /\ pc' = [pc EXCEPT ![t] = "claim_sleep"]
            /\ arg' = [arg EXCEPT ![t].deadline = expiration]
            /\ UNCHANGED <<obs, inbox>>
       ELSE IF expiration = 0
       THEN /\ pc' = [pc EXCEPT ![t] = ret]
            /\ arg' = [arg EXCEPT ![t] = NoArg]
            /\ Observe(b, ClaimEv)
            /\ UNCHANGED inbox
       ELSE /\ pc' = [pc EXCEPT ![t] = "claim_subscribe"]
            /\ UNCHANGED <<obs, arg, inbox>>
    /\ UNCHANGED <<gate, nops, localVars, pubsub>>

\* Lines 54-72: one round of the loop.  The connection mutex is held from
\* the invocation until the reply is handled, so no other call of this
\* process reaches the store in between.
SharedClaimInvoke(t, ret) ==
    LET b == arg[t].bucket
        expiration == ClaimScriptReply(store[b])
    IN
    /\ gate = "shared"
    /\ pc[t] = "claim_script"
    /\ ~RefillDue(b)
    /\ store' = [store EXCEPT ![b] = ClaimScriptStore(@)]
    /\ IF expiration > 0
       THEN \* lines 63-66: sleep for `expiration`, then retry
            /\ pc' = [pc EXCEPT ![t] = "claim_sleep"]
            /\ arg' = [arg EXCEPT ![t].deadline = expiration]
            /\ UNCHANGED <<obs, inbox>>
       ELSE IF expiration = 0
       THEN \* lines 68-70 and 81: granted
            /\ pc' = [pc EXCEPT ![t] = ret]
            /\ arg' = [arg EXCEPT ![t] = NoArg]
            /\ Observe(b, ClaimEv)
            /\ UNCHANGED inbox
       ELSE \* negative: go on to line 72
            /\ pc' = [pc EXCEPT ![t] = "claim_subscribe"]
            /\ UNCHANGED <<obs, arg, inbox>>
    /\ UNCHANGED <<gate, nops, localVars, pubsub>>

\* Line 72: the task subscribes to the broadcast channel.  The script ran
\* in the store and its reply travelled back to the task; the forwarding
\* task of lines 35-39 runs on its own meanwhile, so what it forwards before
\* this line is not seen by the new receiver.
SharedClaimSubscribe(t) ==
    /\ gate = "shared"
    /\ pc[t] = "claim_subscribe"
    /\ pc' = [pc EXCEPT ![t] = "claim_recv"]
    /\ inbox' = [inbox EXCEPT ![t] = <<>>]
    /\ UNCHANGED <<gate, arg, nops, obs, localVars, store, pubsub>>

\* Lines 58-59: the store cannot be reached or answers with an error;
\* `?` returns it from claim.
SharedClaimFail(t, retErr) ==
    /\ gate = "shared"
    /\ pc[t] = "claim_script"
    /\ pc' = [pc EXCEPT ![t] = retErr]
    /\ arg' = [arg EXCEPT ![t] = NoArg]
    /\ Observe(arg[t].bucket, ClaimErrEv)
    /\ UNCHANGED <<gate, nops, localVars, sharedVars>>

\* Line 64 resumed: the sleep is over.
SharedClaimWake(t) ==
    /\ gate = "shared"
    /\ pc[t] = "claim_sleep"
    /\ arg[t].deadline = 0
    /\ pc' = [pc EXCEPT ![t] = "claim_script"]
    /\ UNCHANGED <<gate, arg, nops, obs, localVars, sharedVars>>

\* A waiter that restarts the loop on whatever message arrives.
SharedClaimReceiveAny(t) ==
    /\ gate = "shared"
    /\ pc[t] = "claim_recv"
    /\ inbox[t] # <<>>
    /\ Head(inbox[t]) # "Lagged"
    /\ pc' = [pc EXCEPT ![t] = "claim_script"]
    /\ inbox' = [inbox EXCEPT ![t] = <<>>]
    /\ UNCHANGED <<gate, arg, nops, obs, localVars, store, pubsub>>

\* Lines 73-78: a message arrives; one that names this bucket restarts the
\* loop (and drops the receiver), any other is discarded.
SharedClaimReceive(t) ==
    /\ gate = "shared"
    /\ pc[t] = "claim_recv"
    /\ inbox[t] # <<>>
    /\ Head(inbox[t]) # "Lagged"
    /\ IF Head(inbox[t]) = arg[t].bucket
       THEN /\ pc' = [pc EXCEPT ![t] = "claim_script"]
            /\ inbox' = [inbox EXCEPT ![t] = <<>>]
       ELSE /\ inbox' = [inbox EXCEPT ![t] = Tail(@)]
            /\ UNCHANGED pc
    /\ UNCHANGED <<gate, arg, nops, obs, localVars, store, pubsub>>

\* Line 74: recv() returns RecvError::Lagged and `?` returns it from
\* claim.
SharedClaimLagged(t, retErr) ==
    /\ gate = "shared"
    /\ pc[t] = "claim_recv"
    /\ inbox[t] = <<"Lagged">>
    /\ pc' = [pc EXCEPT ![t] = retErr]
    /\ arg' = [arg EXCEPT ![t] = NoArg]
    /\ inbox' = [inbox EXCEPT ![t] = <<>>]
    /\ Observe(arg[t].bucket, ClaimErrEv)
    /\ UNCHANGED <<gate, nops, localVars, store, pubsub>>

\* The release script of another worker publishes b on rest_ready; the
\* subscription of this process (redis.rs line 31) gets it.
OtherWorkerPublish(b) ==
    /\ gate = "shared"
    /\ pubsub = <<>>
    /\ pubsub' = <<b>>
    /\ UNCHANGED <<gate, pc, arg, nops, obs, localVars, store, inbox>>

\* Lines 85-98: release runs the release script and returns.
SharedRelease(t, b, info, from, retOk) ==
    /\ gate = "shared"
    /\ pc[t] = from
    /\ nops < MaxOps
    /\ nops' = nops + 1
    /\ ~RefillDue(b)
    /\ store' = [store EXCEPT ![b] = ReleaseScriptStore(@, info)]
    /\ pubsub' = IF ReleaseGivesBack(store[b], info) THEN Append(pubsub, b) ELSE pubsub
    /\ obs' = [obs EXCEPT ![b] = ObsStep(ObsStep(@, CallEv(info)), ReleaseEv(info))]
    /\ pc' = [pc EXCEPT ![t] = retOk]
    /\ UNCHANGED <<gate, arg, localVars, inbox>>

\* Lines 93-94: the store cannot be reached or answers with an error;
\* `?` returns it from release.
SharedReleaseFail(t, b, info, from, retErr) ==
    /\ gate = "shared"
    /\ pc[t] = from
    /\ nops < MaxOps
    /\ nops' = nops + 1
    /\ obs' = [obs EXCEPT ![b] = ObsStep(ObsStep(@, CallEv(info)), ReleaseErrEv(info))]
    /\ pc' = [pc EXCEPT ![t] = retErr]
    /\ UNCHANGED <<gate, arg, localVars, sharedVars>>

(***************************************************************************)
(* The clock: one tick passes.  Every instant still ahead comes one tick   *)
(* closer.  With no instant ahead a tick changes nothing.                  *)
(***************************************************************************)
TickDown(n) == IF n > 0 THEN n - 1 ELSE 0

InstantAhead ==
    \/ \E b \in Buckets : timer[b].delay > 0
    \/ \E b \in Buckets : \E d \in store[b].ttl : d > 0
    \/ \E b \in Buckets : \E i \in 1..Len(timer[b].chan) : timer[b].chan[i] > 0
    \/ \E t \in Tasks : arg[t].deadline > 0

Tick ==
    /\ InstantAhead
    /\ arg' = [t \in Tasks |-> [arg[t] EXCEPT !.deadline = TickDown(@)]]
    /\ timer' = [b \in Buckets |->
                    [timer[b] EXCEPT !.delay = TickDown(@),
                                     !.chan = [i \in 1..Len(@) |-> TickDown(@[i])]]]
    /\ store' = [b \in Buckets |-> [store[b] EXCEPT !.ttl = {TickDown(d) : d \in store[b].ttl}]]
    /\ obs' = [b \in Buckets |-> [obs[b] EXCEPT !.due = IF @ > 0 THEN @ - 1 ELSE @]]
    /\ UNCHANGED <<gate, pubsub, inbox, pc, nops, buckets, ready, size, new_timeout, slot_lock>>

Next ==
    \/ \E t \in Tasks, b \in Called :
          LocalClaimEnter(t, b, "idle") /\ UNCHANGED execVars
    \/ \E t \in Tasks : LocalClaimAcquire(t, "idle") /\ UNCHANGED execVars
    \/ \E t \in Tasks, b \in Called, info \in RatelimitInfo :
          LocalReleaseEnter(t, b, info, "idle", "idle") /\ UNCHANGED execVars
    \/ \E t \in Tasks : LocalReleaseBody(t, "idle") /\ UNCHANGED execVars
    \/ \E t \in Tasks : LocalReleaseSend(t, "idle") /\ UNCHANGED execVars
    \/ \E b \in Buckets : TimerReceive(b) /\ UNCHANGED execVars
    \/ \E b \in Buckets : TimerFire(b) /\ UNCHANGED execVars
    \/ \E b \in Buckets : TimerClear(b) /\ UNCHANGED execVars
    \/ \E t \in Tasks, b \in Called :
          SharedClaimEnter(t, b, "idle") /\ UNCHANGED execVars
    \/ \E t \in Tasks : SharedClaimInvoke(t, "idle") /\ UNCHANGED execVars
    \/ \E t \in Tasks : SharedClaimFail(t, "idle") /\ UNCHANGED execVars
    \/ \E t \in Tasks : SharedClaimSubscribe(t) /\ UNCHANGED execVars
    \/ \E t \in Tasks : SharedClaimWake(t) /\ UNCHANGED execVars
    \/ \E t \in Tasks : SharedClaimReceive(t) /\ UNCHANGED execVars
    \/ \E t \in Tasks, b \in Called, info \in RatelimitInfo :
          SharedRelease(t, b, info, "idle", "idle") /\ UNCHANGED execVars
    \/ \E t \in Tasks, b \in Called, info \in RatelimitInfo :
          SharedReleaseFail(t, b, info, "idle", "idle") /\ UNCHANGED execVars
    \/ \E b \in Buckets : StoreRefill(b) /\ UNCHANGED execVars
    \/ PubSubForward /\ UNCHANGED execVars
    \/ Tick /\ UNCHANGED execVars

Spec == Init /\ [][Next]_vars

(***************************************************************************)
(* The shared gate alone, with callers on both buckets.                    *)
(***************************************************************************)
InitShared ==
    /\ Init
    /\ gate = "shared"

\* The releases of these callers carry no limit.
WindowInfo == [limit : {{}}, resets_in : ResetsIn]

NextShared ==
    \/ \E t \in Tasks, b \in Buckets :
          nops < MaxSharedOps /\ SharedClaimEnter(t, b, "idle") /\ UNCHANGED execVars
    \/ \E t \in Tasks : SharedClaimInvoke(t, "idle") /\ UNCHANGED execVars
    \/ \E t \in Tasks : SharedClaimFail(t, "idle") /\ UNCHANGED execVars
    \/ \E t \in Tasks : SharedClaimSubscribe(t) /\ UNCHANGED execVars
    \/ \E t \in Tasks : SharedClaimWake(t) /\ UNCHANGED execVars
    \/ \E t \in Tasks : SharedClaimReceive(t) /\ UNCHANGED execVars
    \/ \E t \in Tasks, b \in Buckets, info \in WindowInfo :
          nops < MaxSharedOps /\ SharedRelease(t, b, info, "idle", "idle")
              /\ UNCHANGED execVars
    \/ \E t \in Tasks, b \in Buckets, info \in WindowInfo :
          nops < MaxSharedOps /\ SharedReleaseFail(t, b, info, "idle", "idle")
              /\ UNCHANGED execVars
    \/ \E b \in Buckets : StoreRefill(b) /\ UNCHANGED execVars
    \/ PubSubForward /\ UNCHANGED execVars
    \/ Tick /\ UNCHANGED execVars

SpecShared == InitShared /\ [][NextShared]_vars

\* The shared gate of one worker among others: its callers use one bucket,
\* and the other workers release on the other bucket as often as they like.
NextBroadcast ==
    \/ \E t \in Tasks, b \in Called :
          nops < MaxSharedOps /\ SharedClaimEnter(t, b, "idle") /\ UNCHANGED execVars
    \/ \E t \in Tasks : SharedClaimInvoke(t, "idle") /\ UNCHANGED execVars
    \/ \E t \in Tasks : SharedClaimSubscribe(t) /\ UNCHANGED execVars
    \/ \E t \in Tasks : SharedClaimWake(t) /\ UNCHANGED execVars
    \/ \E t \in Tasks : SharedClaimReceive(t) /\ UNCHANGED execVars
    \/ \E t \in Tasks : SharedClaimLagged(t, "idle") /\ UNCHANGED execVars
    \/ \E t \in Tasks, b \in Called, info \in WindowInfo :
          nops < MaxSharedOps /\ SharedRelease(t, b, info, "idle", "idle")
              /\ UNCHANGED execVars
    \/ \E b \in Buckets \ Called : OtherWorkerPublish(b) /\ UNCHANGED execVars
    \/ \E b \in Called : StoreRefill(b) /\ UNCHANGED execVars
    \/ PubSubForward /\ UNCHANGED execVars
    \/ Tick /\ UNCHANGED execVars

SpecBroadcast == InitShared /\ [][NextBroadcast]_vars

(***************************************************************************)
(* Scheduling.  tokio resumes every task whose await is ready, delivers    *)
(* what was published, and the clock moves on.  Nothing forces a caller to *)
(* issue a new call.                                                       *)
(***************************************************************************)
Resume(t) ==
    /\ \/ LocalClaimAcquire(t, "idle")
       \/ LocalReleaseBody(t, "idle")
       \/ LocalReleaseSend(t, "idle")
       \/ SharedClaimInvoke(t, "idle")
       \/ SharedClaimSubscribe(t)
       \/ SharedClaimWake(t)
       \/ SharedClaimReceive(t)
    /\ UNCHANGED execVars

Background ==
    /\ \/ \E b \in Buckets : TimerReceive(b) \/ TimerFire(b) \/ TimerClear(b)
       \/ \E b \in Buckets : StoreRefill(b)
       \/ PubSubForward
       \/ Tick
    /\ UNCHANGED execVars

FairSpec ==
    /\ Spec
    /\ \A t \in Tasks : WF_vars(Resume(t))
    /\ WF_vars(Background)

(***************************************************************************)
(* The request executor: Client::handle_message and Client::do_request of  *)
(* src/src/runtime/client.rs ("runtime") and of the older                  *)
(* src/src/bin/proxy/client.rs ("proxy").  Every task handles one message. *)
(***************************************************************************)
MessageData == {"missing", "invalid"} \cup Buckets

\* reqwest's execute: a response that carries rate-limit headers, one that
\* carries none, or a transport error.
HttpResults == {"headers", "plain", "error"}

\* ratelimiter.rs lines 43-57: RatelimitInfo::from(result).
InfoFrom(result) ==
    IF result = "headers" THEN Info({2}, {Window}) ELSE NoInfo

\* runtime/client.rs lines 199-214.  The runtime executor acknowledges the
\* message first (line 199) and returns when it has no data; the proxy
\* executor decodes the data first and does not acknowledge here.  Both
\* then start do_request: create_request and make_route (lines 94-95) fail
\* on data no request or route can be made from, before the gate is called.
HandleMessage(t) ==
    /\ pc[t] = "msg"
    /\ \E data \in MessageData, timed \in BOOLEAN, ackOk \in BOOLEAN :
         LET acked == executor = "runtime"
             m == [msg[t] EXCEPT !.data = data, !.timed = timed,
                                 !.acks = IF acked THEN 1 ELSE 0,
                                 !.earlyAck = acked]
         IN
         IF acked /\ ~ackOk
         THEN /\ pc' = [pc EXCEPT ![t] = "done"]
              /\ msg' = [msg EXCEPT ![t].data = data, ![t].timed = timed]
         ELSE IF data = "missing"
         THEN /\ pc' = [pc EXCEPT ![t] = "done"]
              /\ msg' = [msg EXCEPT ![t] = m]
         ELSE IF data = "invalid"
         THEN /\ pc' = [pc EXCEPT ![t] = "exec_ack"]
              /\ msg' = [msg EXCEPT ![t] = [m EXCEPT !.err = "PathError"]]
         ELSE /\ pc' = [pc EXCEPT ![t] = "exec_claim"]
              /\ msg' = [msg EXCEPT ![t] = [m EXCEPT !.route = {data}]]
    /\ UNCHANGED <<gate, arg, nops, obs, localVars, sharedVars, executor, calc>>

\* Line 96: the gate's claim is called on the route.
ClaimCall(t) ==
    /\ \E b \in msg[t].route :
          \/ LocalClaimEnter(t, b, "exec_claim")
          \/ SharedClaimEnter(t, b, "exec_claim")
    /\ UNCHANGED <<executor, msg, calc>>

\* Line 96: claim goes on, and may return Ok (to line 119).
ClaimResume(t) ==
    /\ \/ LocalClaimAcquire(t, "exec_ack")
       \/ SharedClaimInvoke(t, "exec_ack")
       \/ SharedClaimSubscribe(t)
       \/ SharedClaimWake(t)
       \/ SharedClaimReceive(t)
    /\ msg' = [msg EXCEPT ![t].claimOk = (pc'[t] = "exec_ack")]
    /\ UNCHANGED <<executor, calc>>

\* An executor that goes on as if claim had returned Ok.
ClaimFailIgnored(t) ==
    /\ SharedClaimFail(t, "exec_ack")
    /\ msg' = [msg EXCEPT ![t].gateErr = "claim", ![t].claimOk = TRUE]
    /\ UNCHANGED <<executor, calc>>

\* Line 96: the gate's claim returns an error of the store.
ClaimFail(t) ==
    /\ SharedClaimFail(t, "exec_ack")
    /\ msg' = [msg EXCEPT ![t].err = "RedisError", ![t].gateErr = "claim"]
    /\ UNCHANGED <<executor, calc>>

\* Lines 119-128: the message is acknowledged (`?` returns the error of
\* an acknowledgement that failed), `claim?` returns the error of a claim
\* that failed, and the HTTP call is issued.
DoRequestAck(t) ==
    /\ pc[t] = "exec_ack"
    /\ \E ackOk \in BOOLEAN :
         IF ~ackOk
         THEN /\ pc' = [pc EXCEPT ![t] = "exec_reply"]
              /\ msg' = [msg EXCEPT ![t].err = "BrokerError"]
         ELSE /\ msg' = [msg EXCEPT ![t].acks = @ + 1,
                                   ![t].calls = IF msg[t].claimOk THEN @ + 1 ELSE @]
              /\ pc' = [pc EXCEPT ![t] =
                           IF msg[t].claimOk THEN "exec_http" ELSE "exec_reply"]
    /\ UNCHANGED <<gate, arg, nops, obs, localVars, sharedVars, executor, calc>>

\* Lines 131-133: release is called on the bucket with the information of
\* the result; `?` returns its error.
ReleaseCall(t, b, info) ==
    \/ LocalReleaseEnter(t, b, info, "exec_http", "exec_fail")
    \/ SharedRelease(t, b, info, "exec_http", "exec_reply")
    \/ SharedReleaseFail(t, b, info, "exec_http", "exec_fail")

\* An executor that does not release after a transport error.
HttpCompleteOrFail(t, result) ==
    /\ IF result = "error"
       THEN /\ pc[t] = "exec_http"
            /\ pc' = [pc EXCEPT ![t] = "exec_reply"]
            /\ UNCHANGED <<gate, arg, nops, obs, localVars, sharedVars>>
       ELSE \E b \in msg[t].route : ReleaseCall(t, b, InfoFrom(result))
    /\ msg' = [msg EXCEPT ![t].res = result,
                          ![t].releases = IF result = "error" THEN @ ELSE @ + 1,
                          ![t].releasedOn = IF result = "error" THEN @ ELSE msg[t].route,
                          ![t].gateErr = IF pc'[t] = "exec_fail" THEN "release" ELSE @]
    /\ UNCHANGED <<executor, calc>>

\* Lines 128-133: the HTTP call completes and release is called at once;
\* no await lies between the two.
HttpComplete(t, result) ==
    /\ \E b \in msg[t].route : ReleaseCall(t, b, InfoFrom(result))
    /\ msg' = [msg EXCEPT ![t].res = result,
                          ![t].releases = @ + 1,
                          ![t].releasedOn = msg[t].route,
                          ![t].gateErr = IF pc'[t] = "exec_fail" THEN "release" ELSE @]
    /\ UNCHANGED <<executor, calc>>

\* Lines 131-133: release goes on and returns.
ReleaseResume(t) ==
    /\ \/ LocalReleaseBody(t, "exec_reply")
       \/ LocalReleaseSend(t, "exec_reply")
    /\ UNCHANGED <<executor, msg, calc>>

\* src/src/models.rs lines 72-92, ResponseStatus::from(&dyn Error): the
\* status is chosen by the type of the error.
ResponseStatusFrom(e) ==
    CASE e = "rmp_serde::decode::Error" -> "InvalidRequestFormat"
      [] e = "PathError"                -> "InvalidPath"
      [] e = "QueryError"               -> "InvalidQuery"
      [] e = "InvalidMethod"            -> "InvalidMethod"
      [] e = "http::Error"              -> "InvalidHeaders"
      [] e = "reqwest::Error"           -> "RequestFailure"
      [] e = "Elapsed"                  -> "RequestTimeout"
      [] OTHER                          -> "Unknown"

\* src/src/models.rs lines 107-123, RequestResponse::from(Result).
RequestResponseFrom(e) == IF e = "none" THEN "Success" ELSE ResponseStatusFrom(e)

\* A do_request that returns Ok after a transport error.
DoRequestErrorDropped(t) ==
    IF pc[t] = "exec_fail"
    THEN IF gate = "local" THEN "anyhow::Error" ELSE "RedisError"
    ELSE msg[t].err

\* The error do_request returns, "none" for Ok: the error of release
\* (line 133), else the one met before the HTTP call (lines 119-120), else
\* the transport error of the call (line 134).
DoRequestError(t) ==
    IF pc[t] = "exec_fail"
    THEN IF gate = "local" THEN "anyhow::Error" ELSE "RedisError"
    ELSE IF msg[t].err # "none" THEN msg[t].err
    ELSE IF msg[t].res = "error" THEN "reqwest::Error"
    ELSE "none"

\* Lines 216-229: the result of do_request, Ok or Err, is sent as the reply.
Reply(t) ==
    /\ pc[t] \in {"exec_reply", "exec_fail"}
    /\ pc' = [pc EXCEPT ![t] = "done"]
    /\ msg' = [msg EXCEPT ![t].replied = TRUE,
                          ![t].err = DoRequestError(t),
                          ![t].status = RequestResponseFrom(DoRequestError(t))]
    /\ UNCHANGED <<gate, arg, nops, obs, localVars, sharedVars, executor, calc>>

\* The awaits of do_request.
AwaitPoints ==
    {"claim_acquire", "claim_script", "claim_sleep", "claim_recv",
     "exec_ack", "exec_http", "release_lock", "release_send"}

Without(q, t) == SelectSeq(q, LAMBDA x : x # t)

\* Line 214: the timeout elapses while do_request is suspended.  The future
\* is dropped, with whatever it waits for or holds, and `?` returns the
\* Elapsed error: no reply is sent.
Elapsed(t) ==
    /\ msg[t].timed
    /\ pc[t] \in AwaitPoints
    /\ pc' = [pc EXCEPT ![t] = "done"]
    /\ arg' = [arg EXCEPT ![t] = NoArg]
    /\ slot_lock' = [b \in Buckets |-> Without(slot_lock[b], t)]
    /\ inbox' = [inbox EXCEPT ![t] = <<>>]
    /\ msg' = [msg EXCEPT ![t].elapsed = TRUE]
    /\ UNCHANGED <<gate, nops, obs, buckets, ready, size, new_timeout, timer,
                   store, pubsub, executor, calc>>

\* src/src/main.rs: the process runs one of the two gates; the messages
\* are handled by one of the two executors.
InitExec ==
    /\ InitGate
    /\ executor \in {"runtime", "proxy"}
    /\ pc = [t \in Tasks |-> "msg"]
    /\ calc = NoCalc
    /\ cancel = [t \in Tasks |-> "none"]

\* main.rs lines 106-116, broker.rs lines 96-101: the handler runs as a
\* branch of select!.  select! polls its branches in an order it picks at
\* random: once the handle was notified, the task stops as soon as the
\* cancellation branch is polled, which may be after the handler's branch
\* was polled once more and took the step it was ready for.
Polled(t) ==
    /\ cancel[t] # "stopping"
    /\ cancel' = [cancel EXCEPT ![t] = IF @ = "notified" THEN "stopping" ELSE @]

NextExec ==
    \/ \E t \in Tasks : HandleMessage(t) /\ Polled(t)
    \/ \E t \in Tasks : ClaimCall(t) /\ Polled(t)
    \/ \E t \in Tasks : ClaimResume(t) /\ Polled(t)
    \/ \E t \in Tasks : ClaimFail(t) /\ Polled(t)
    \/ \E t \in Tasks : DoRequestAck(t) /\ Polled(t)
    \/ \E t \in Tasks, result \in HttpResults : HttpComplete(t, result) /\ Polled(t)
    \/ \E t \in Tasks : ReleaseResume(t) /\ Polled(t)
    \/ \E t \in Tasks : Reply(t) /\ Polled(t)
    \/ \E t \in Tasks : Elapsed(t) /\ Polled(t)
    \/ Background

SpecExec == InitExec /\ [][NextExec]_vars

(***************************************************************************)
(* The message harness: the task spawned for a message (src/src/main.rs    *)
(* lines 91-121, src/src/runtime/broker.rs lines 79-106) and the task that *)
(* consumes the cancellation channel (main.rs lines 54-67, broker.rs lines *)
(* 49-62).  The two run in parallel.  The handle of a message is "none"    *)
(* (no correlation id, or not inserted yet), "map" (in the map), "watch"   *)
(* (in the map, and the task's Notified future exists), "lost" (removed    *)
(* and notified before the Notified future existed), "notified",           *)
(* "stopping" (notified, and the handler was polled once more), "late"     *)
(* (removed after the reply was sent) or "removed" (removed by the task).  *)
(***************************************************************************)
\* main.rs lines 92-104: the task makes its Notify and inserts it in the
\* map under the correlation id; the map's lock is dropped.
RegisterHandle(t) ==
    /\ pc[t] = "spawn"
    /\ pc' = [pc EXCEPT ![t] = "select"]
    /\ cancel' = [cancel EXCEPT ![t] = "map"]
    /\ UNCHANGED <<gate, arg, nops, obs, localVars, sharedVars, executor, msg, calc>>

\* main.rs lines 106-107: select! is entered and cancellation.notified()
\* is made.  notify_waiters stores no permit: a notification that came
\* before this future existed is not seen by it.
SelectEnter(t) ==
    /\ pc[t] = "select"
    /\ pc' = [pc EXCEPT ![t] = "msg"]
    /\ cancel' = [cancel EXCEPT ![t] = IF @ = "map" THEN "watch" ELSE @]
    /\ UNCHANGED <<gate, arg, nops, obs, localVars, sharedVars, executor, msg, calc>>

\* main.rs lines 55-62: a cancellation message names the correlation id
\* of the message of t; its handle is removed from the map and
\* notify_waiters is called on it.
Cancel(t) ==
    /\ cancel[t] \in {"map", "watch"}
    /\ cancel' = [cancel EXCEPT ![t] =
                     IF msg[t].replied THEN "late"
                     ELSE IF @ = "map" THEN "lost" ELSE "notified"]
    /\ UNCHANGED <<gate, pc, arg, nops, obs, localVars, sharedVars, executor, msg, calc>>

\* main.rs lines 107-111: the cancellation branch completes and the task
\* returns; the handler's future is dropped with whatever it waits for.
CancelStop(t) ==
    /\ cancel[t] \in {"notified", "stopping"}
    /\ pc[t] \notin {"done", "cancelled"}
    /\ pc' = [pc EXCEPT ![t] = "cancelled"]
    /\ arg' = [arg EXCEPT ![t] = NoArg]
    /\ slot_lock' = [b \in Buckets |-> Without(slot_lock[b], t)]
    /\ inbox' = [inbox EXCEPT ![t] = <<>>]
    /\ UNCHANGED <<gate, nops, obs, buckets, ready, size, new_timeout, timer,
                   store, pubsub, execVars>>

\* main.rs lines 118-120: the handler's branch completed; the task removes
\* its handle from the map.
RemoveHandle(t) ==
    /\ pc[t] = "done"
    /\ cancel[t] \in {"watch", "lost", "late", "stopping"}
    /\ pc' = [pc EXCEPT ![t] = "exit"]
    /\ cancel' = [cancel EXCEPT ![t] = IF @ = "watch" THEN "removed" ELSE @]
    /\ UNCHANGED <<gate, arg, nops, obs, localVars, sharedVars, executor, msg, calc>>

\* Message t1 carries a correlation id, message t2 carries none.
InitHarness ==
    /\ InitGate
    /\ executor \in {"runtime", "proxy"}
    /\ pc = [t \in Tasks |-> IF t = "t1" THEN "spawn" ELSE "msg"]
    /\ calc = NoCalc
    /\ cancel = [t \in Tasks |-> "none"]

NextHarness ==
    \/ NextExec
    \/ \E t \in Tasks : RegisterHandle(t)
    \/ \E t \in Tasks : SelectEnter(t)
    \/ \E t \in Tasks : Cancel(t)
    \/ \E t \in Tasks : CancelStop(t)
    \/ \E t \in Tasks : RemoveHandle(t)

SpecHarness == InitHarness /\ [][NextHarness]_vars

(***************************************************************************)
(* The pure functions of the executor, each called on its own: the         *)
(* effective timeout (runtime/client.rs line 213), make_route              *)
(* (src/src/route.rs), and the bucket Client::claim derives from the path  *)
(* of a message (runtime/client.rs lines 39-46 and 94-95).                 *)
(***************************************************************************)
\* Line 213, Option::min: Option orders None before every Some, and min
\* returns the smaller of the two.
OptionLe(a, b) == a = {} \/ (b # {} /\ \A x \in a, y \in b : x <= y)

OptionMin(a, b) == IF OptionLe(a, b) THEN a ELSE b

\* Two words that follow each other would be one longer word.
WellFormed(str) ==
    \A i \in 1..(Len(str) - 1) : str[i] = "/" \/ str[i + 1] = "/"

PathStrings ==
    {str \in UNION {[1..n -> Tokens] : n \in 0..MaxLen} : WellFormed(str)}

\* The segments of a string that holds no leading "/": the words between
\* its slashes, "" where two slashes meet or the string ends on one.
RECURSIVE Split(_)
Split(str) ==
    IF str = <<>> THEN <<"">>
    ELSE IF Head(str) = "/" THEN <<"">> \o Split(Tail(str))
    ELSE <<Head(str)>> \o Tail(Split(Tail(str)))

\* route.rs line 24, uriparse Path::try_from: a path is absolute when it
\* starts with "/"; what follows is split into segments.
ParsePath(str) ==
    IF str # <<>> /\ Head(str) = "/"
    THEN [absolute |-> TRUE, segments |-> Split(Tail(str))]
    ELSE [absolute |-> FALSE, segments |-> Split(str)]

RECURSIVE Join(_)
Join(segments) ==
    LET first == IF Head(segments) = "" THEN <<>> ELSE <<Head(segments)>>
    IN IF Len(segments) = 1 THEN first
       ELSE first \o <<"/">> \o Join(Tail(segments))

\* route.rs lines 33 and 35, String::from(Path): the segments joined by
\* "/", after a leading "/" when the path is absolute.
PathToString(path) ==
    (IF path.absolute THEN <<"/">> ELSE <<>>) \o Join(path.segments)

ScopedSegments == {"guilds", "channels", "webhooks"}

Ok(val) == [ok |-> TRUE, val |-> val]

Err(e) == [ok |-> FALSE, val |-> <<e>>]

\* A templater that replaces the second segment of every path.
MakeRouteAnyScope(str) ==
    LET path == ParsePath(str)
    IN IF ~path.absolute THEN Err("RelativePath")
       ELSE IF Len(path.segments) > 1
       THEN Ok(PathToString([path EXCEPT !.segments[2] = ":id"]))
       ELSE Ok(PathToString(path))

\* route.rs lines 23-37, make_route.
MakeRoute(str) ==
    LET path == ParsePath(str)
    IN IF ~path.absolute THEN Err("RelativePath")
       ELSE IF path.segments[1] \in ScopedSegments /\ Len(path.segments) > 1
       THEN Ok(PathToString([path EXCEPT !.segments[2] = ":id"]))
       ELSE Ok(PathToString(path))

\* DiscordConfig.api_version as it appears in the URL.
ApiVersion == "v6"

\* runtime/client.rs lines 40-45 and 95: the path of the request's URL is
\* "/api/v<version>/" followed by the message's path without its leading
\* "/", or by nothing when the path has none (unwrap_or_default).
UrlPath(str) ==
    <<"/", "api", "/", ApiVersion, "/">>
        \o (IF str # <<>> /\ Head(str) = "/" THEN Tail(str) ELSE <<>>)

\* runtime/client.rs lines 94-95: the bucket of a message's path.
ClaimBucket(str) == MakeRoute(UrlPath(str))

\* The message paths with a scoped first segment and an id after it, and
\* the same path with another id.
ScopedPaths ==
    {str \in PathStrings :
        LET path == ParsePath(str)
        IN /\ path.absolute
           /\ path.segments[1] \in ScopedSegments
           /\ Len(path.segments) > 1
           /\ path.segments[2] # ""}

WithId(str, id) == PathToString([ParsePath(str) EXCEPT !.segments[2] = id])

CalcInputs ==
    {[fn |-> "min", in |-> <<server, request>>, out |-> {}] :
        server \in {{}, {1}, {2}}, request \in {{}, {1}, {2}}}
    \cup {[fn |-> "make_route", in |-> str, out |-> {}] : str \in PathStrings}
    \cup {[fn |-> "claim", in |-> <<str, WithId(str, id)>>, out |-> {}] :
              str \in ScopedPaths, id \in {"1", "2"}}
    \cup {[fn |-> "create_request", in |-> <<str, other>>, out |-> {}] :
              str \in PathStrings, other \in {<<"guilds">>, <<"/", "guilds">>}}

\* handle_message computes the timeout it applies.
EffectiveTimeout ==
    /\ calc.fn = "min" /\ calc.out = {}
    /\ calc' = [calc EXCEPT !.out = {OptionMin(calc.in[1], calc.in[2])}]
    /\ UNCHANGED <<gate, pc, arg, nops, obs, localVars, sharedVars, executor, msg, cancel>>

\* make_route is called on a path.
MakeRouteCall ==
    /\ calc.fn = "make_route" /\ calc.out = {}
    /\ calc' = [calc EXCEPT !.out = {MakeRoute(calc.in)}]
    /\ UNCHANGED <<gate, pc, arg, nops, obs, localVars, sharedVars, executor, msg, cancel>>

\* Client::claim derives the buckets of two messages.
ClaimBucketCall ==
    /\ calc.fn = "claim" /\ calc.out = {}
    /\ calc' = [calc EXCEPT !.out = {<<ClaimBucket(calc.in[1]), ClaimBucket(calc.in[2])>>}]
    /\ UNCHANGED <<gate, pc, arg, nops, obs, localVars, sharedVars, executor, msg, cancel>>

\* create_request builds the URLs of two messages.
CreateRequestCall ==
    /\ calc.fn = "create_request" /\ calc.out = {}
    /\ calc' = [calc EXCEPT !.out = {<<UrlPath(calc.in[1]), UrlPath(calc.in[2])>>}]
    /\ UNCHANGED <<gate, pc, arg, nops, obs, localVars, sharedVars, executor, msg, cancel>>

InitFn ==
    /\ InitGate
    /\ executor = "runtime"
    /\ pc = [t \in Tasks |-> "idle"]
    /\ calc \in CalcInputs
    /\ cancel = [t \in Tasks |-> "none"]

NextFn ==
    \/ EffectiveTimeout
    \/ MakeRouteCall
    \/ ClaimBucketCall
    \/ CreateRequestCall

SpecFn == InitFn /\ [][NextFn]_vars

(***************************************************************************)
(* The older executor and its shutdown (src/bin/src/main.rs).  The main    *)
(* loop takes messages from the subscription until it sees the interrupt   *)
(* signal, and spawns a task for each; a task runs handle_request as one   *)
(* branch of select! and waits for the signal in the other.  The request   *)
(* itself is made by a task of its own that make_request spawns            *)
(* (src/core/src/ratelimiter/mod.rs).  `cancel[t]` is where the task of    *)
(* message t stands: "queued" (the message is still in the subscription),  *)
(* "spawned" (not polled yet), "listening" (it waits for the signal and    *)
(* for the handler), "signalled", "republished", "finished".  `pc[t]` is   *)
(* where the request of message t stands.  `calc.in` is the republish      *)
(* channel; `calc.out` holds the state of the main loop (`main`), whether  *)
(* a signal is pending at its listener (`sig`), the signals sent so far,   *)
(* the bodies published to the request event, and the tasks that were      *)
(* running (`stopped`) and the messages that were not taken (`left`) when  *)
(* the main loop saw the signal.                                           *)
(***************************************************************************)
NoMain ==
    [main |-> "select", sig |-> FALSE, signals |-> 0, published |-> <<>>,
     stopped |-> {}, left |-> {}]

\* The tasks that exist and have not ended.
Running == {t \in Tasks : cancel[t] \in {"spawned", "listening", "signalled"}}

\* How often the body of message t was sent to the republish channel.
Republished(t) ==
    Cardinality({i \in 1..Len(calc.in) : calc.in[i] = t})
        + Cardinality({i \in 1..Len(calc.out.published) : calc.out.published[i] = t})

\* main.rs lines 59-77, ResponseStatus::from(&dyn Error).
BinResponseStatusFrom(e) ==
    CASE e = "serde_json::Error" -> "InvalidRequestFormat"
      [] e = "PathError"         -> "InvalidPath"
      [] e = "QueryError"        -> "InvalidQuery"
      [] e = "InvalidMethod"     -> "InvalidMethod"
      [] e = "http::Error"       -> "InvalidHeaders"
      [] e = "reqwest::Error"    -> "RequestFailure"
      [] OTHER                   -> "Unknown"

\* main.rs lines 85-104, RequestResponse::from(Result).
BinRequestResponseFrom(e) == IF e = "none" THEN "Success" ELSE BinResponseStatusFrom(e)

InitBin ==
    /\ InitGate
    /\ gate = "shared"
    /\ executor = "bin"
    /\ pc = [t \in Tasks |-> "msg"]
    /\ calc = [fn |-> "bin", in |-> <<>>, out |-> NoMain]
    /\ cancel = [t \in Tasks |-> "queued"]

\* The process is sent an interrupt.  tokio hands it to the listeners that
\* exist: ctrl_c() makes its listener when it is first polled, so a task
\* that was spawned and not polled yet has none.
Signal ==
    /\ calc.out.main # "exited"
    /\ calc.out.signals < MaxSignals
    /\ calc' = [calc EXCEPT !.out.signals = @ + 1,
                            !.out.sig = (calc.out.main = "select")]
    /\ cancel' = [t \in Tasks |->
                     IF cancel[t] = "listening" THEN "signalled" ELSE cancel[t]]
    /\ UNCHANGED <<gate, pc, arg, nops, obs, localVars, sharedVars, executor, msg>>

\* Lines 258-272: select! returns a message and the loop spawns its task.
\* select! polls its branches in an order it picks at random, so a message
\* is taken also when the signal is pending; the listener of this round is
\* dropped with what it holds, and the next round makes a new one.
MainTake(t) ==
    /\ calc.out.main = "select"
    /\ cancel[t] = "queued"
    /\ cancel' = [cancel EXCEPT ![t] = "spawned"]
    /\ calc' = [calc EXCEPT !.out.sig = FALSE]
    /\ UNCHANGED <<gate, pc, arg, nops, obs, localVars, sharedVars, executor, msg>>

\* Lines 258-260 and 274-276: select! returns the signal, the loop ends and
\* main drops its sender of the republish channel.
MainShutdown ==
    /\ calc.out.main = "select"
    /\ calc.out.sig
    /\ calc' = [calc EXCEPT !.out.main = "flush",
                            !.out.sig = FALSE,
                            !.out.stopped = Running,
                            !.out.left = {t \in Tasks : cancel[t] = "queued"}]
    /\ UNCHANGED <<gate, pc, arg, nops, obs, localVars, sharedVars, executor,
                   msg, cancel>>

\* Lines 279-284: a body is taken from the republish channel and published
\* to the request event.
Flush ==
    /\ calc.out.main = "flush"
    /\ calc.in # <<>>
    /\ calc' = [calc EXCEPT !.in = Tail(@),
                            !.out.published = Append(@, Head(calc.in))]
    /\ UNCHANGED <<gate, pc, arg, nops, obs, localVars, sharedVars, executor,
                   msg, cancel>>

\* Line 279: recv() returns None once the channel is empty and every task
\* has dropped its sender; main returns and the runtime drops the tasks
\* that are left.
MainExit ==
    /\ calc.out.main = "flush"
    /\ calc.in = <<>>
    /\ Running = {}
    /\ calc' = [calc EXCEPT !.out.main = "exited"]
    /\ UNCHANGED <<gate, pc, arg, nops, obs, localVars, sharedVars, executor,
                   msg, cancel>>

\* Lines 264-271 and 121-196: the task is polled for the first time.  Its
\* ctrl_c() makes the listener; handle_request decodes the body and builds
\* the request (an error goes to the reply), and make_request spawns the
\* task of the request.
BinFirstPoll(t) ==
    /\ calc.out.main # "exited"
    /\ cancel[t] = "spawned"
    /\ pc[t] = "msg"
    /\ cancel' = [cancel EXCEPT ![t] = "listening"]
    /\ \E data \in {"missing", "invalid"} \cup Called :
         IF data = "missing"
         THEN /\ pc' = [pc EXCEPT ![t] = "exec_reply"]
              /\ msg' = [msg EXCEPT ![t].data = data, ![t].err = "serde_json::Error"]
         ELSE IF data = "invalid"
         THEN /\ pc' = [pc EXCEPT ![t] = "exec_reply"]
              /\ msg' = [msg EXCEPT ![t].data = data, ![t].err = "PathError"]
         ELSE /\ pc' = [pc EXCEPT ![t] = "exec_claim"]
              /\ msg' = [msg EXCEPT ![t].data = data, ![t].route = {data}]
    /\ UNCHANGED <<gate, arg, nops, obs, localVars, sharedVars, executor, calc>>

\* mod.rs line 29: the task of the request calls claim.
BinClaimCall(t) ==
    /\ calc.out.main # "exited"
    /\ \E b \in msg[t].route : SharedClaimEnter(t, b, "exec_claim")
    /\ UNCHANGED execVars

\* mod.rs lines 29-30: claim goes on; when it returns Ok the HTTP call is
\* issued.
BinClaimResume(t) ==
    /\ calc.out.main # "exited"
    /\ \/ SharedClaimInvoke(t, "exec_http")
       \/ SharedClaimSubscribe(t)
       \/ SharedClaimWake(t)
       \/ SharedClaimReceive(t)
    /\ msg' = [msg EXCEPT ![t].claimOk = (pc'[t] = "exec_http"),
                          ![t].calls = IF pc'[t] = "exec_http" THEN @ + 1 ELSE @]
    /\ UNCHANGED <<executor, calc, cancel>>

\* mod.rs line 29: claim returns an error and `?` ends the task with it.
BinClaimFail(t) ==
    /\ calc.out.main # "exited"
    /\ SharedClaimFail(t, "inner_done")
    /\ msg' = [msg EXCEPT ![t].err = "RedisError", ![t].gateErr = "claim"]
    /\ UNCHANGED <<executor, calc, cancel>>

\* mod.rs lines 30-32: the HTTP call completes, release is called with the
\* information of the result and returns, and the task ends with the
\* result or with the error of release.
BinHttpComplete(t, result) ==
    /\ calc.out.main # "exited"
    /\ \E b \in msg[t].route :
          \/ SharedRelease(t, b, InfoFrom(result), "exec_http", "inner_done")
               /\ msg' = [msg EXCEPT ![t].res = result,
                                     ![t].releases = @ + 1,
                                     ![t].releasedOn = msg[t].route,
                                     ![t].err = IF result = "error"
                                                THEN "reqwest::Error" ELSE @]
          \/ SharedReleaseFail(t, b, InfoFrom(result), "exec_http", "inner_done")
               /\ msg' = [msg EXCEPT ![t].res = result,
                                     ![t].releases = @ + 1,
                                     ![t].releasedOn = msg[t].route,
                                     ![t].err = "RedisError",
                                     ![t].gateErr = "release"]
    /\ UNCHANGED <<executor, calc, cancel>>

\* main.rs lines 177-181: the handler, not signalled, is woken by the end
\* of the request's task and goes on to the reply.
BinJoin(t) ==
    /\ calc.out.main # "exited"
    /\ cancel[t] = "listening"
    /\ pc[t] = "inner_done"
    /\ pc' = [pc EXCEPT ![t] = "exec_reply"]
    /\ UNCHANGED <<gate, arg, nops, obs, localVars, sharedVars, execVars>>

\* main.rs lines 122-130: the reply is sent and handle_request returns:
\* the select! of the task is over, also when the signal is pending and
\* the handler's branch was polled first.
BinReply(t) ==
    /\ calc.out.main # "exited"
    /\ cancel[t] \in {"listening", "signalled"}
    /\ pc[t] = "exec_reply"
    /\ pc' = [pc EXCEPT ![t] = "done"]
    /\ cancel' = [cancel EXCEPT ![t] = "finished"]
    /\ msg' = [msg EXCEPT ![t].replied = TRUE,
                          ![t].status = BinRequestResponseFrom(msg[t].err)]
    /\ UNCHANGED <<gate, arg, nops, obs, localVars, sharedVars, executor, calc>>

\* main.rs lines 265-268: the task sees the signal and sends the body to
\* the republish channel.  The handler is dropped where it waits; the task
\* of the request is not, it goes on by itself.
BinRepublish(t) ==
    /\ calc.out.main # "exited"
    /\ cancel[t] = "signalled"
    /\ cancel' = [cancel EXCEPT ![t] = "republished"]
    /\ calc' = [calc EXCEPT !.in = Append(@, t)]
    /\ pc' = [pc EXCEPT ![t] = IF @ = "exec_reply" THEN "done" ELSE @]
    /\ UNCHANGED <<gate, arg, nops, obs, localVars, sharedVars, executor, msg>>

NextBin ==
    \/ Signal
    \/ \E t \in Tasks : MainTake(t)
    \/ MainShutdown
    \/ Flush
    \/ MainExit
    \/ \E t \in Tasks : BinFirstPoll(t)
    \/ \E t \in Tasks : BinClaimCall(t)
    \/ \E t \in Tasks : BinClaimResume(t)
    \/ \E t \in Tasks : BinClaimFail(t)
    \/ \E t \in Tasks, result \in HttpResults : BinHttpComplete(t, result)
    \/ \E t \in Tasks : BinJoin(t)
    \/ \E t \in Tasks : BinReply(t)
    \/ \E t \in Tasks : BinRepublish(t)
    \/ calc.out.main # "exited" /\ Background

SpecBin == InitBin /\ [][NextBin]_vars

(***************************************************************************)
(* The cancellation map by its keys (src/src/runtime/broker.rs lines       *)
(* 13, 47-62 and 79-106; src/src/main.rs lines 52-67 and 91-121).  The map *)
(* is a HashMap from correlation id to the Notify of a task, so two        *)
(* messages that carry the same id meet in one entry.  `calc.out.id[t]` is *)
(* the correlation id of message t (Some or None), `calc.out.map[c]` the   *)
(* task whose Notify is under c.  `pc[t]` is "queued" (the message is in   *)
(* the subscription), "spawn", "select" (the handle is inserted), "msg"    *)
(* (select! runs the handler), "done" (the handler returned), "exit",      *)
(* "cancelled" or "panicked".  `cancel[t]` is the state of the Notify of   *)
(* t: "none", "watch" (its Notified future exists), "notified", or "lost"  *)
(* (notified before the future existed).  The handler is the one of        *)
(* SpecExec; here only its end is told apart.                              *)
(***************************************************************************)
CorrelationIds == {"a", "b"}

\* The task has ended.
Ended(t) == pc[t] \in {"exit", "cancelled", "panicked"}

InitMap ==
    /\ InitGate
    /\ gate = "local"
    /\ executor = "runtime"
    /\ pc = [t \in Tasks |-> "queued"]
    /\ calc = [fn |-> "map", in |-> <<>>,
               out |-> [map |-> [c \in CorrelationIds |-> {}], id |-> [t \in Tasks |-> {}]]]
    /\ cancel = [t \in Tasks |-> "none"]

\* broker.rs lines 74-85: a message is received and its task is spawned;
\* the task makes its Notify and reads the correlation id.
MapSpawn(t, maybe_correlation_id) ==
    /\ calc.fn = "map"
    /\ pc[t] = "queued"
    /\ pc' = [pc EXCEPT ![t] = "spawn"]
    /\ calc' = [calc EXCEPT !.out.id[t] = maybe_correlation_id]
    /\ UNCHANGED <<gate, arg, nops, obs, localVars, sharedVars, executor, msg, cancel>>

\* broker.rs lines 87-92: HashMap::insert puts the handle under the id, in
\* the place of whatever was there.
MapInsert(t) ==
    /\ calc.fn = "map"
    /\ pc[t] = "spawn"
    /\ pc' = [pc EXCEPT ![t] = "select"]
    /\ calc' = [calc EXCEPT !.out.map =
                   [c \in CorrelationIds |-> IF c \in calc.out.id[t] THEN {t} ELSE @[c]]]
    /\ UNCHANGED <<gate, arg, nops, obs, localVars, sharedVars, executor, msg, cancel>>

\* broker.rs lines 94-98: the handler's future is made and select! is
\* entered, which makes cancellation.notified().
MapSelect(t) ==
    /\ calc.fn = "map"
    /\ pc[t] = "select"
    /\ pc' = [pc EXCEPT ![t] = "msg"]
    /\ cancel' = [cancel EXCEPT ![t] = IF @ = "none" THEN "watch" ELSE @]
    /\ UNCHANGED <<gate, arg, nops, obs, localVars, sharedVars, executor, msg, calc>>

\* broker.rs lines 50-57: a cancellation message names id c; the entry
\* under c is removed and notify_waiters is called on its Notify.
MapCancel(c) ==
    /\ calc.fn = "map"
    /\ calc.out.map[c] # {}
    /\ calc' = [calc EXCEPT !.out.map[c] = {}]
    /\ cancel' = [t \in Tasks |->
                     IF t \notin calc.out.map[c] \/ Ended(t) \/ pc[t] = "done"
                     THEN cancel[t]
                     ELSE IF cancel[t] = "watch" THEN "notified"
                     ELSE IF cancel[t] = "none" THEN "lost"
                     ELSE cancel[t]]
    /\ UNCHANGED <<gate, pc, arg, nops, obs, localVars, sharedVars, executor, msg>>

\* broker.rs line 97: the handler returns, Ok or Err.
MapHandlerDone(t, e) ==
    /\ calc.fn = "map"
    /\ pc[t] = "msg"
    /\ pc' = [pc EXCEPT ![t] = "done"]
    /\ msg' = [msg EXCEPT ![t].err = e]
    /\ UNCHANGED <<gate, arg, nops, obs, localVars, sharedVars, executor, calc, cancel>>

\* runtime/client.rs lines 226-229, bin/proxy/client.rs lines 135-138: the
\* reply cannot be sent and expect() panics; the task unwinds.
MapHandlerPanic(t) ==
    /\ calc.fn = "map"
    /\ pc[t] = "msg"
    /\ pc' = [pc EXCEPT ![t] = "panicked"]
    /\ msg' = [msg EXCEPT ![t].err = "panic"]
    /\ UNCHANGED <<gate, arg, nops, obs, localVars, sharedVars, executor, calc, cancel>>

\* broker.rs lines 98-100: the cancellation branch completes and the task
\* returns.
MapCancelStop(t) ==
    /\ calc.fn = "map"
    /\ pc[t] = "msg"
    /\ cancel[t] = "notified"
    /\ pc' = [pc EXCEPT ![t] = "cancelled"]
    /\ UNCHANGED <<gate, arg, nops, obs, localVars, sharedVars, execVars>>

\* broker.rs lines 103-105: HashMap::remove takes out whatever is under
\* the id of the task.
MapRemove(t) ==
    /\ calc.fn = "map"
    /\ pc[t] = "done"
    /\ pc' = [pc EXCEPT ![t] = "exit"]
    /\ calc' = [calc EXCEPT !.out.map =
                   [c \in CorrelationIds |-> IF c \in calc.out.id[t] THEN {} ELSE @[c]]]
    /\ UNCHANGED <<gate, arg, nops, obs, localVars, sharedVars, executor, msg, cancel>>

NextMap ==
    \/ \E t \in Tasks, c \in CorrelationIds : MapSpawn(t, {c})
    \/ \E t \in Tasks : MapSpawn(t, {})
    \/ \E t \in Tasks : MapInsert(t)
    \/ \E t \in Tasks : MapSelect(t)
    \/ \E c \in CorrelationIds : MapCancel(c)
    \/ \E t \in Tasks, e \in {"none", "anyhow::Error"} : MapHandlerDone(t, e)
    \/ \E t \in Tasks : MapHandlerPanic(t)
    \/ \E t \in Tasks : MapCancelStop(t)
    \/ \E t \in Tasks : MapRemove(t)

SpecMap == InitMap /\ [][NextMap]_vars

(***************************************************************************)
(* The consumer loop of the runtime executor (src/src/runtime/client.rs    *)
(* lines 160-189, Client::consume_stream): it takes the messages of the    *)
(* stream one by one and spawns handle_message for each, under a deadline  *)
(* guard when the message carries timeout_at.  `calc.out.loop` is the      *)
(* state of the loop ("running", "failed" after an error of the stream,    *)
(* "panicked"), `calc.out.timeout_at[t]` tells where the deadline of       *)
(* message t was when the loop took it ("none", "past", "ahead"; "unread"  *)
(* before), and `cancel[t]` is the deadline guard of its task ("none",     *)
(* "armed", "expired").  `pc[t]` is "queued" while message t is in the     *)
(* stream and "dropped" when it was taken and no task was spawned for it.  *)
(***************************************************************************)
InitStream ==
    /\ InitGate
    /\ executor = "runtime"
    /\ pc = [t \in Tasks |-> "queued"]
    /\ calc = [fn |-> "stream", in |-> <<>>,
               out |-> [loop |-> "running", timeout_at |-> [t \in Tasks |-> "unread"]]]
    /\ cancel = [t \in Tasks |-> "none"]

\* Lines 170-186: try_next yields message t.  With timeout_at the loop
\* computes timeout.duration_since(now).expect("duration"), which panics
\* in the loop itself when the deadline is not ahead; otherwise the task
\* is spawned, under timeout_at(instant, ..) when there is a deadline.
StreamConsume(t, timeout_at) ==
    /\ calc.fn = "stream"
    /\ calc.out.loop = "running"
    /\ pc[t] = "queued"
    /\ calc' = [calc EXCEPT !.out.timeout_at[t] = timeout_at,
                            !.out.loop = IF timeout_at = "past" THEN "panicked" ELSE @]
    /\ pc' = [pc EXCEPT ![t] = IF timeout_at = "past" THEN "dropped" ELSE "msg"]
    /\ cancel' = [cancel EXCEPT ![t] = IF timeout_at = "ahead" THEN "armed" ELSE @]
    /\ UNCHANGED <<gate, arg, nops, obs, localVars, sharedVars, executor, msg>>

\* Line 170: try_next yields an error of the broker and `?` returns it.
StreamError ==
    /\ calc.fn = "stream"
    /\ calc.out.loop = "running"
    /\ calc' = [calc EXCEPT !.out.loop = "failed"]
    /\ UNCHANGED <<gate, pc, arg, nops, obs, localVars, sharedVars, executor, msg, cancel>>

\* Lines 175-177: the deadline is reached while handle_message is
\* suspended; timeout_at drops the handler with whatever it waits for or
\* holds, and the task ends.
StreamDeadline(t) ==
    /\ calc.fn = "stream"
    /\ cancel[t] = "armed"
    /\ pc[t] \in AwaitPoints
    /\ pc' = [pc EXCEPT ![t] = "cancelled"]
    /\ cancel' = [cancel EXCEPT ![t] = "expired"]
    /\ arg' = [arg EXCEPT ![t] = NoArg]
    /\ slot_lock' = [b \in Buckets |-> Without(slot_lock[b], t)]
    /\ inbox' = [inbox EXCEPT ![t] = <<>>]
    /\ UNCHANGED <<gate, nops, obs, buckets, ready, size, new_timeout, timer,
                   store, pubsub, executor, msg, calc>>

NextStream ==
    \/ \E t \in Tasks, timeout_at \in {"none", "past", "ahead"} : StreamConsume(t, timeout_at)
    \/ StreamError
    \/ \E t \in Tasks : StreamDeadline(t)
    \/ NextExec

SpecStream == InitStream /\ [][NextStream]_vars

(***************************************************************************)
(* The two gates under the same calls.  A process that runs the local gate *)
(* is given claim and release calls, one after the other: a call is issued *)
(* when every caller is back in its own code or waits in claim.  The calls *)
(* and the fires of the window timer are written down in the order they    *)
(* happen (`calc.in`), each with the number of callers that were back in   *)
(* their own code.  Then a process that runs the shared gate is given the  *)
(* same calls in the same order, its window running out where the timer    *)
(* fired (`calc.out.pos` events have been applied).  The calls are on one  *)
(* bucket, the releases carry no limit and come after a claim has          *)
(* returned, and the store answers every script.                           *)
(***************************************************************************)
TwinBucket == "foo"

\* The callers that are back in their own code.
IdleCallers == Cardinality({t \in Tasks : pc[t] = "idle"})

TwinEvent(e, info) == [e |-> e, info |-> info, idle |-> IdleCallers]

\* Every caller of the local process is back in its own code or waits for a
\* permit that is not there.
LocalSettled ==
    \A t \in Tasks :
        \/ pc[t] = "idle"
        \/ pc[t] = "claim_acquire" /\ ready[arg[t].bucket] = 0

\* Every caller of the shared process is back in its own code, sleeps until
\* the window resets, or waits for a rest_ready message, none being on its
\* way.
SharedSettled ==
    /\ \A t \in Tasks :
          \/ pc[t] = "idle"
          \/ pc[t] = "claim_sleep" /\ arg[t].deadline > 0
          \/ pc[t] = "claim_recv" /\ inbox[t] = <<>>
    /\ pubsub = <<>>

InitTwin ==
    /\ InitGate
    /\ gate = "local"
    /\ executor = "runtime"
    /\ pc = [t \in Tasks |-> "idle"]
    /\ calc = [fn |-> "twin", in |-> <<>>, out |-> [pos |-> 0, idle |-> 0]]
    /\ cancel = [t \in Tasks |-> "none"]

TwinRecord(ev) ==
    /\ LocalSettled
    /\ Len(calc.in) < MaxTwinOps
    /\ calc' = [calc EXCEPT !.in = Append(@, ev)]
    /\ UNCHANGED <<executor, msg, cancel>>

TwinReplay(ev) ==
    /\ SharedSettled
    /\ calc.out.pos < Len(calc.in)
    /\ calc.in[calc.out.pos + 1].e = ev.e
    /\ calc.in[calc.out.pos + 1].info = ev.info
    /\ calc' = [calc EXCEPT !.out.pos = @ + 1]
    /\ UNCHANGED <<executor, msg, cancel>>

\* The local process is left as it is once its callers are settled, and
\* the shared process starts, its store empty.
TwinRestart ==
    /\ gate = "local"
    /\ LocalSettled
    /\ gate' = "shared"
    /\ calc' = [calc EXCEPT !.out.idle = IdleCallers]
    /\ pc' = [t \in Tasks |-> "idle"]
    /\ arg' = [t \in Tasks |-> NoArg]
    /\ nops' = 0
    /\ obs' = [b \in Buckets |-> NoObs]
    /\ buckets' = {}
    /\ ready' = [b \in Buckets |-> DefaultPermits]
    /\ size' = [b \in Buckets |-> DefaultSize]
    /\ new_timeout' = [b \in Buckets |-> FALSE]
    /\ slot_lock' = [b \in Buckets |-> <<>>]
    /\ timer' = [b \in Buckets |-> NoTimer]
    /\ UNCHANGED <<sharedVars, executor, msg, cancel>>

NextTwin ==
    \/ \E t \in Tasks :
          LocalClaimEnter(t, TwinBucket, "idle")
              /\ TwinRecord(TwinEvent("claim", NoInfo))
    \/ \E t \in Tasks : LocalClaimAcquire(t, "idle") /\ UNCHANGED execVars
    \/ \E t \in Tasks, info \in WindowInfo :
          obs[TwinBucket].claimed
              /\ LocalReleaseEnter(t, TwinBucket, info, "idle", "idle")
              /\ TwinRecord(TwinEvent("release", info))
    \/ \E t \in Tasks : LocalReleaseBody(t, "idle") /\ UNCHANGED execVars
    \/ \E t \in Tasks : LocalReleaseSend(t, "idle") /\ UNCHANGED execVars
    \/ gate = "local" /\ TimerReceive(TwinBucket) /\ UNCHANGED execVars
    \/ gate = "local" /\ TimerFire(TwinBucket)
          /\ TwinRecord(TwinEvent("fire", NoInfo))
    \/ gate = "local" /\ TimerClear(TwinBucket) /\ UNCHANGED execVars
    \/ TwinRestart
    \/ \E t \in Tasks :
          SharedClaimEnter(t, TwinBucket, "idle")
              /\ TwinReplay(TwinEvent("claim", NoInfo))
    \/ \E t \in Tasks : SharedClaimInvoke(t, "idle") /\ UNCHANGED execVars
    \/ \E t \in Tasks : SharedClaimSubscribe(t) /\ UNCHANGED execVars
    \/ \E t \in Tasks : SharedClaimWake(t) /\ UNCHANGED execVars
    \/ \E t \in Tasks : SharedClaimReceive(t) /\ UNCHANGED execVars
    \/ \E t \in Tasks, info \in WindowInfo :
          SharedRelease(t, TwinBucket, info, "idle", "idle")
              /\ TwinReplay(TwinEvent("release", info))
    \/ StoreRefill(TwinBucket) /\ TwinReplay(TwinEvent("fire", NoInfo))
    \/ PubSubForward /\ UNCHANGED execVars
    \/ Tick /\ UNCHANGED execVars

SpecTwin == InitTwin /\ [][NextTwin]_vars

(***************************************************************************)
(* Properties of the gate.                                                 *)
(***************************************************************************)
\* A task is suspended inside claim(b).
Claiming(t, b) ==
    /\ pc[t] \in {"claim_acquire", "claim_script", "claim_subscribe",
                "claim_sleep", "claim_recv"}
    /\ arg[t].bucket = b

\* C1: on either gate, while release was never called on a bucket and its
\* window was never refilled, the claims that returned on the bucket do not
\* exceed its capacity, which is 1 for a bucket that was never released.
C1_ClaimsWithinCapacity ==
    \A b \in Buckets :
        (~obs[b].called /\ ~obs[b].fired) => obs[b].outstanding <= DefaultSize

\* One claim returned, a second one is suspended, release was not called.
C1_Witness ==
    \E b \in Buckets, t \in Tasks :
        /\ Claiming(t, b)
        /\ obs[b].outstanding = DefaultSize
        /\ ~obs[b].called

\* C2: on a fresh bucket a second claim returns only after a release has
\* returned, and once release(b, {}) has returned after the first claim a
\* claim that waits does return (unless the callers move on to other
\* releases first).
C2_SecondClaimAfterRelease ==
    /\ [](\A b \in Buckets :
            (~obs[b].released /\ ~obs[b].fired) => obs[b].outstanding <= 1)
    /\ \A b \in Called :
         (obs[b].trace = <<ClaimEv, ReleaseEv(NoInfo)>> /\ \E t \in Tasks : Claiming(t, b))
            ~> (obs[b].trace \in {claim_release, OffScenario})

\* The second claim returned after the release of the first.
C2_Witness == \E b \in Buckets : obs[b].trace = claim_release

\* The permits a claim can take at once: the semaphore's on the local
\* gate, the key's on the shared one (a missing key stands for a full window).
Available(b) ==
    IF gate = "local" THEN ready[b]
    ELSE IF store[b].remaining = {} THEN StoredSize(store[b])
    ELSE StoredRemaining(store[b])

\* C3: on a fresh bucket, after a claim returned and release(b, {resets_in:
\* D}) was called at t0 and returned, a permit is there for the next claim;
\* once that claim returned none is left until the window is refilled; the
\* refill is not before t0 + D and leaves a permit; and a claim that comes
\* after the second (one that has not yet been told by the store to wait
\* for rest_ready) returns.
C3_WindowReset ==
    /\ [](\A b \in Buckets :
            /\ obs[b].trace = <<ClaimEv, ReleaseEv(Info({}, {Window}))>> => Available(b) >= 1
            /\ obs[b].trace = <<ClaimEv, ReleaseEv(Info({}, {Window})), ClaimEv>> => Available(b) = 0
            /\ obs[b].trace = <<ClaimEv, ReleaseEv(Info({}, {Window})), ClaimEv, FireEv>>
                  => (obs[b].due = 0 /\ Available(b) >= 1))
    /\ \A b \in Called :
         (/\ obs[b].trace = <<ClaimEv, ReleaseEv(Info({}, {Window})), ClaimEv>>
          /\ \E t \in Tasks :
                Claiming(t, b) /\ pc[t] \notin {"claim_subscribe", "claim_recv"})
            ~> (obs[b].trace \in {claim_timeout_release, OffScenario})

\* The claim that waited for the window returned after the refill.
C3_Witness == \E b \in Buckets : obs[b].trace = claim_timeout_release

\* C4: on a fresh bucket, after a claim returned and release(b, {limit: 2})
\* returned, two permits are there; they serve exactly two further claims;
\* a third finds none until a later release returns, which leaves one.
C4_LimitTwo ==
    \A b \in Buckets :
        /\ obs[b].trace = <<ClaimEv, ReleaseEv(Info({2}, {}))>> => Available(b) = 2
        /\ obs[b].trace = <<ClaimEv, ReleaseEv(Info({2}, {})), ClaimEv>> => Available(b) = 1
        /\ obs[b].trace = <<ClaimEv, ReleaseEv(Info({2}, {})), ClaimEv, ClaimEv>>
              => Available(b) = 0
        /\ obs[b].trace = <<ClaimEv, ReleaseEv(Info({2}, {})), ClaimEv, ClaimEv,
                            ReleaseEv(Info({2}, {}))>> => Available(b) >= 1

\* The third claim returned after the second release.
C4_Witness == \E b \in Buckets : obs[b].trace = claim_limit_release

\* C5: when the window timer of a bucket fires, the permits of the bucket
\* become equal to its size, whatever was unclaimed before (on a bucket
\* whose releases each gave back a unit that was outstanding).
C5_RefillToCapacity ==
    [][\A b \in Buckets :
          (TimerFire(b) /\ ~obs[b].overdrawn) => ready'[b] = size'[b]]_vars

\* C6: from a refill of the window on, and as long as no release returned
\* after it, the claims that returned do not exceed the capacity (on a
\* bucket whose releases each gave back a unit that was outstanding).
C6_ClaimsPerWindow ==
    \A b \in Buckets :
        ~obs[b].overdrawn =>
            obs[b].since <= IF gate = "local" THEN size[b]
                            ELSE StoredSize(store[b])

\* C7: on the local gate a release returns Ok only when a claim on the
\* bucket has returned before (a release issued before any claim returned
\* fails).
C7_NoReleaseBeforeClaim ==
    \A b \in Buckets : (gate = "local" /\ obs[b].released) => obs[b].claimed

\* C8: on the local gate, once a claim on a bucket has returned, the
\* releases that returned Ok on it never exceed the claims that returned.
C8_ReleasesWithinClaims ==
    \A b \in Buckets : (gate = "local" /\ obs[b].claimed) => obs[b].outstanding >= 0

(***************************************************************************)
(* Properties of the request executor.                                     *)
(***************************************************************************)
\* C9: for every message, release is called at most once; it has been
\* called once, on the bucket that was claimed, whenever the HTTP call
\* completed (with headers, without, or with a transport error), which
\* happens only after claim returned Ok; and it is not called when claim
\* did not return Ok.
C9_ReleaseOncePerClaim ==
    \A t \in Tasks :
        /\ msg[t].releases <= 1
        /\ msg[t].res # "none" =>
              (msg[t].claimOk /\ msg[t].releases = 1 /\ msg[t].releasedOn = msg[t].route)
        /\ ~msg[t].claimOk => msg[t].releases = 0

\* A message whose HTTP call ended in a transport error was released and
\* replied to, while the other message was released on the other bucket.
C9_Witness ==
    \E t, u \in Tasks :
        /\ msg[t].res = "error" /\ msg[t].releases = 1 /\ msg[t].replied
        /\ msg[u].res = "headers" /\ msg[u].releases = 1
        /\ msg[u].releasedOn # msg[t].releasedOn

\* C10: a message that got a reply was not acknowledged before claim
\* returned, and was acknowledged before its HTTP call, if that ran.
C10_AckAfterClaim ==
    \A t \in Tasks :
        msg[t].replied =>
            (~msg[t].earlyAck /\ (msg[t].res # "none" => msg[t].acks >= 1))

\* C11: a message whose timeout expired inside do_request gets a reply,
\* and the status of the reply is RequestTimeout.
C11_TimeoutReplied ==
    \A t \in Tasks :
        (msg[t].elapsed /\ pc[t] = "done") =>
            (msg[t].replied /\ msg[t].status = "RequestTimeout")

\* C12: the timeout applied is the smaller one when the server and the
\* request both set one, the one that is set when only one does, and none
\* only when neither does.
C12_EffectiveTimeout ==
    (calc.fn = "min" /\ calc.out # {}) =>
        LET server == calc.in[1]
            request == calc.in[2]
        IN \A applied \in calc.out :
              /\ (server # {} /\ request # {}) =>
                    /\ applied \in {server, request}
                    /\ \A x \in applied, y \in server \cup request : x <= y
              /\ (server # {} /\ request = {}) => applied = server
              /\ (server = {} /\ request # {}) => applied = request
              /\ (server = {} /\ request = {}) => applied = {}

\* C13: a message that carries a request, was acknowledged and whose
\* handler has ended got one reply.
C13_AcknowledgedReplied ==
    \A t \in Tasks :
        (pc[t] = "done" /\ msg[t].acks >= 1 /\ msg[t].data # "missing")
            => msg[t].replied

\* C14: a message whose cancellation was processed while its handle was
\* in the map and its reply was not sent gets no reply.
C14_CancelledNoReply ==
    \A t \in Tasks :
        cancel[t] \in {"lost", "notified", "stopping"} => ~msg[t].replied

\* C15: two messages whose paths differ only in the id after a top-level
\* guilds, channels or webhooks segment are claimed on the same bucket.
C15_SameBucket ==
    (calc.fn = "claim" /\ calc.out # {}) =>
        \A buckets_of \in calc.out : buckets_of[1] = buckets_of[2]

\* C16: on an absolute path whose first segment is guilds, channels or
\* webhooks and that has a second segment, make_route returns the path
\* with the second segment replaced by :id and every other segment as it
\* was; on every other absolute path it returns the path as it was.
C16_MakeRoute ==
    (calc.fn = "make_route" /\ calc.out # {}) =>
        \A result \in calc.out :
            LET path == ParsePath(calc.in)
                route == ParsePath(result.val)
            IN path.absolute =>
                 /\ result.ok
                 /\ IF path.segments[1] \in ScopedSegments /\ Len(path.segments) > 1
                    THEN /\ route.absolute
                         /\ Len(route.segments) = Len(path.segments)
                         /\ route.segments[2] = ":id"
                         /\ \A i \in 1..Len(path.segments) :
                               i # 2 => route.segments[i] = path.segments[i]
                    ELSE result.val = calc.in

\* make_route has templated /guilds/1/users.
C16_Witness ==
    /\ calc.fn = "make_route"
    /\ calc.in = <<"/", "guilds", "/", "1", "/", "users">>
    /\ calc.out = {Ok(<<"/", "guilds", "/", ":id", "/", "users">>)}

\* C17: on the shared gate a claim returns Ok only in the step in which the
\* claim script answered 0 for its bucket; a claim that sleeps after a
\* positive answer e invokes the script again only when e has elapsed; a
\* claim that waits after a negative answer invokes it again only on a
\* rest_ready message that names its bucket, and stays waiting when it
\* takes a message that names another bucket off its receiver.
C17_ClaimFollowsScript ==
    [][\A t \in Tasks :
          LET b == arg[t].bucket
          IN /\ (Claiming(t, b) /\ pc'[t] = "idle"
                    /\ obs'[b].outstanding = obs[b].outstanding + 1)
                  => (pc[t] = "claim_script" /\ ClaimScriptReply(store[b]) = 0)
             /\ (pc[t] = "claim_script" /\ pc'[t] = "claim_sleep")
                  => (ClaimScriptReply(store[b]) > 0
                      /\ arg'[t].deadline = ClaimScriptReply(store[b]))
             /\ (pc[t] = "claim_sleep" /\ pc'[t] = "claim_script")
                  => arg[t].deadline = 0
             /\ (pc[t] = "claim_script" /\ pc'[t] = "claim_subscribe")
                  => ClaimScriptReply(store[b]) < 0
             /\ (pc[t] = "claim_subscribe") => pc'[t] \in {"claim_subscribe", "claim_recv"}
             /\ (pc[t] = "claim_recv" /\ pc'[t] # "claim_recv")
                  => (pc'[t] = "claim_script" /\ inbox[t] # <<>> /\ Head(inbox[t]) = b)
             /\ (pc[t] = "claim_recv" /\ inbox[t] # <<>> /\ Head(inbox[t]) # b
                    /\ inbox'[t] = Tail(inbox[t]))
                  => pc'[t] = "claim_recv"]_vars

\* A claim that waits for rest_ready has a message on its receiver that
\* names the other bucket, while a claim on its own bucket is outstanding.
C17_Witness ==
    \E t \in Tasks :
        /\ pc[t] = "claim_recv"
        /\ inbox[t] # <<>>
        /\ Head(inbox[t]) # arg[t].bucket
        /\ obs[arg[t].bucket].outstanding = 1

\* C18: on the shared gate a claim that waits after a negative answer,
\* on a bucket the claim script would grant, invokes the script again,
\* unless the bucket stops being claimable first (another claim took the
\* permit): it does not wait for ever on a bucket that stays claimable.
C18_WaiterRetries ==
    \A t \in Tasks :
        (/\ gate = "shared"
         /\ pc[t] \in {"claim_subscribe", "claim_recv"}
         /\ ClaimScriptReply(store[arg[t].bucket]) = 0)
            ~> (\/ pc[t] \notin {"claim_subscribe", "claim_recv"}
                \/ ClaimScriptReply(store[arg[t].bucket]) # 0)

Releasing(t, b) ==
    /\ pc[t] \in {"release_lock", "release_send"}
    /\ arg[t].bucket = b

\* The two events of a trace are claims that returned with no refill of the
\* window and no completed release without resets_in between them.
NothingBetween(trace, i, j) ==
    /\ trace[i] = ClaimEv
    /\ trace[j] = ClaimEv
    /\ \A k \in (i + 1)..(j - 1) :
          /\ trace[k] # FireEv
          /\ ~(trace[k].e = "release" /\ trace[k].info.resets_in = {})

\* C24: the same calls and timer firings applied to the local gate and to
\* the shared gate make the same claims return: whenever the callers of the
\* shared gate are settled, as many of them are back in their own code as
\* were on the local gate at the same place of the sequence.
C24_GatesAgree ==
    (gate = "shared" /\ calc.fn = "twin" /\ SharedSettled /\ ~RefillDue(TwinBucket)) =>
        IdleCallers = IF calc.out.pos = Len(calc.in)
                      THEN calc.out.idle
                      ELSE calc.in[calc.out.pos + 1].idle

\* C25: between two claims that both return on a bucket with no refill of
\* the window in between, a release without resets_in has completed (on
\* the runs that follow the scenarios of the gate's test suite).
C25_ReleaseBetweenClaims ==
    \A b \in Buckets :
        (gate = "local" /\ obs[b].trace # OffScenario) =>
            \A i \in 1..Len(obs[b].trace) : \A j \in (i + 1)..Len(obs[b].trace) :
                ~NothingBetween(obs[b].trace, i, j)

\* C25 as amended: on the local gate a claim returns only by taking one
\* permit off the bucket, and the permits of a bucket grow only in a step
\* of a release on it or in the fire of its window timer.
C25_PermitFromReleaseOrRefill ==
    [][\A b \in Buckets :
          gate = "local" =>
            /\ (\E t \in Tasks : Claiming(t, b) /\ ~Claiming(t, b)')
                  => (ready[b] >= 1 /\ ready'[b] = ready[b] - 1)
            /\ ready'[b] > ready[b]
                  => \/ \E t \in Tasks : Releasing(t, b) /\ pc'[t] # pc[t]
                     \/ (timer[b].state = "running" /\ timer'[b].state = "fired")]_vars

\* Two claims returned one after the other on the permits that a release
\* with limit 2 had left.
C25_Witness ==
    \E b \in Buckets :
        /\ gate = "local"
        /\ obs[b].trace = <<ClaimEv, ReleaseEv(Info({2}, {})), ClaimEv, ClaimEv>>

\* C26: on the local gate the size of a bucket is at least its outstanding
\* units (on a bucket whose window was never refilled and whose releases
\* each gave back a unit that was outstanding).
C26_SizeCoversOutstanding ==
    \A b \in Buckets :
        (gate = "local" /\ ~obs[b].fired /\ ~obs[b].overdrawn)
            => size[b] >= obs[b].outstanding

\* C27: on the local gate a window timer that a release has sent a new
\* deadline to, while it was pending, does not refill the bucket before
\* that deadline: when it fires, every deadline sent to it has been reached.
C27_TimerMoved ==
    [][\A b \in Buckets :
          (gate = "local" /\ timer[b].state = "running" /\ timer'[b].state = "fired")
            => \A i \in 1..Len(timer[b].chan) : timer[b].chan[i] = 0]_vars

\* C28: on the local gate the timer slot of a bucket holds a sender
\* exactly when the bucket's window timer task exists and has not fired,
\* and a timer task is spawned only when the bucket has none.
C28_OneTimerPerBucket ==
    /\ [](\A b \in Buckets :
            gate = "local" => (new_timeout[b] <=> timer[b].state = "running"))
    /\ [][\A b \in Buckets :
            (timer[b].state # "running" /\ timer'[b].state = "running")
                => timer[b].state = "none"]_vars

\* C29: on the local gate a release whose limit is smaller than the size
\* of the bucket returns Ok, stores the limit as the size, and leaves the
\* permits as a release without limit would.
C29_ShrinkKeepsPermits ==
    [][\A t \in Tasks : \A b \in Buckets :
          (/\ gate = "local"
           /\ Releasing(t, b)
           /\ ~Releasing(t, b)'
           /\ \E n \in arg[t].info.limit : n < size[b])
            => /\ pc'[t] = "idle"
               /\ size'[b] \in arg[t].info.limit
               /\ ready'[b] \in {ready[b], ready[b] + 1}]_vars

\* C30: on the local gate a release with neither limit nor resets_in adds
\* exactly one permit when the bucket has no window timer task, and no
\* permit when it has one; it leaves the size and the timer as they are.
C30_PlainRelease ==
    [][\A t \in Tasks : \A b \in Buckets :
          (/\ gate = "local"
           /\ Releasing(t, b)
           /\ ~Releasing(t, b)'
           /\ arg[t].info = NoInfo)
            => /\ ready'[b] = IF timer[b].state = "none" THEN ready[b] + 1 ELSE ready[b]
               /\ size'[b] = size[b]
               /\ timer'[b] = timer[b]
               /\ new_timeout'[b] = new_timeout[b]]_vars

\* A release with neither limit nor resets_in holds the timer-slot mutex
\* of a bucket whose window timer is running.
C30_Witness ==
    \E t \in Tasks : \E b \in Buckets :
        /\ gate = "local"
        /\ pc[t] = "release_lock"
        /\ arg[t].bucket = b
        /\ arg[t].info = NoInfo
        /\ Head(slot_lock[b]) = t
        /\ timer[b].state = "running"


(***************************************************************************)
(* Properties of the handling of a message that cannot be decoded and of   *)
(* the shutdown of the process.                                            *)
(***************************************************************************)

\* C21: a message whose body cannot be decoded into a request (and whose
\* acknowledgement, where one is sent first, went through) is answered with
\* status InvalidRequestFormat, and neither claim nor the HTTP call happens.
C21_DecodeFailureReplied ==
    \A t \in Tasks :
        (/\ pc[t] = "done"
         /\ msg[t].data = "missing"
         /\ executor = "runtime" => msg[t].acks = 1)
            => /\ msg[t].replied
               /\ msg[t].status = "InvalidRequestFormat"
               /\ ~msg[t].claimOk
               /\ msg[t].calls = 0

\* C22: once the main loop has seen the signal no further message is
\* taken, and when the process exits every message whose task was still
\* running at that moment was republished exactly once and got no reply,
\* every message whose task had finished was not republished, and no body
\* is left in the republish channel.
C22_ShutdownRepublishes ==
    /\ calc.fn = "bin" /\ calc.out.main # "select" =>
          \A t \in calc.out.left : cancel[t] = "queued"
    /\ calc.fn = "bin" /\ calc.out.main = "exited" =>
          /\ calc.in = <<>>
          /\ \A t \in calc.out.stopped : Republished(t) = 1 /\ ~msg[t].replied
          /\ \A t \in Tasks : cancel[t] = "finished" /\ t \notin calc.out.stopped
                                  => Republished(t) = 0

\* C23: no request is both sent to the remote API and republished.
C23_NotSentAndRepublished ==
    \A t \in Tasks :
        calc.fn = "bin" /\ Republished(t) >= 1 => msg[t].calls = 0

(***************************************************************************)
(* Properties of waiting claims, of the cancellation map and of the        *)
(* consumer loop.                                                          *)
(***************************************************************************)
\* C31: a claim that waits holds no lock.  It is not in the queue of a
\* timer-slot mutex, and whatever another task of the process is about to
\* do goes ahead: it can call claim and release on every bucket, a claim
\* that finds a permit takes it, a claim whose store is reachable runs its
\* script, and a release that is first at the timer-slot mutex runs.
C31_WaiterHoldsNoLock ==
    \A t \in Tasks : pc[t] \in {"claim_sleep", "claim_recv", "claim_acquire"} =>
        /\ \A b \in Buckets : \A i \in 1..Len(slot_lock[b]) : slot_lock[b][i] # t
        /\ \A u \in Tasks \ {t} :
              /\ (pc[u] = "idle" /\ nops < MaxOps /\ gate = "local") =>
                     \A b \in Buckets :
                        /\ ENABLED LocalClaimEnter(u, b, "idle")
                        /\ \A info \in RatelimitInfo :
                              ENABLED LocalReleaseEnter(u, b, info, "idle", "idle")
              /\ (pc[u] = "idle" /\ nops < MaxOps /\ gate = "shared") =>
                     \A b \in Buckets :
                        /\ ENABLED SharedClaimEnter(u, b, "idle")
                        /\ ~RefillDue(b) => \A info \in RatelimitInfo :
                              ENABLED SharedRelease(u, b, info, "idle", "idle")
              /\ (pc[u] = "claim_acquire" /\ ready[arg[u].bucket] > 0) =>
                     ENABLED LocalClaimAcquire(u, "idle")
              /\ (pc[u] = "claim_script" /\ ~RefillDue(arg[u].bucket)) =>
                     ENABLED SharedClaimInvoke(u, "idle")
              /\ (pc[u] = "release_lock" /\ Head(slot_lock[arg[u].bucket]) = u) =>
                     ENABLED LocalReleaseBody(u, "idle")

\* A claim waits for a rest_ready message while another claim of the
\* process is about to run its script.
C31_Witness ==
    \E t \in Tasks, u \in Tasks :
        /\ pc[t] = "claim_recv"
        /\ pc[u] = "claim_script"
        /\ ~RefillDue(arg[u].bucket)

\* C32: the cancellation map holds handles of running tasks only: no
\* entry is the handle of a task that has ended.
C32_MapOfRunningTasks ==
    calc.fn = "map" =>
        \A c \in CorrelationIds : \A t \in calc.out.map[c] : ~Ended(t)

\* C38: a task that ends removes its own handle only: the step in which a
\* task leaves takes no entry out of the map but one that holds the
\* handle of that task, so a request in flight under the same id stays
\* cancellable.
C38_RemovesOwnHandle ==
    [][calc.fn = "map" =>
         \A t \in Tasks :
            (pc[t] = "done" /\ pc'[t] = "exit") =>
               \A c \in CorrelationIds :
                  \A u \in calc.out.map[c] \ {t} : u \in calc'.out.map[c]]_vars

\* C33: a message whose timeout_at is already past when the loop takes
\* it does not stop the loop.
C33_PastDeadlineKeepsLoop ==
    calc.fn = "stream" =>
        \A t \in Tasks :
            calc.out.timeout_at[t] = "past" => calc.out.loop = "running"

(***************************************************************************)
(* Properties of the request's URL, of the termination of release, of the  *)
(* permits of dropped requests, of the broadcast channel and of the        *)
(* acknowledgements.                                                       *)
(***************************************************************************)
\* A path without the "/" it may start with.
Relative(str) == IF str # <<>> /\ Head(str) = "/" THEN Tail(str) ELSE str

\* C34: the path of the URL built for a message path p is /api/v<version>/
\* followed by p without its leading "/", whether p has one or not, and
\* two message paths that differ in more than the leading "/" get
\* different URL paths.
C34_UrlPathKeepsPath ==
    (calc.fn = "create_request" /\ calc.out # {}) =>
        \A urls \in calc.out :
            /\ urls[1] = <<"/", "api", "/", ApiVersion, "/">> \o Relative(calc.in[1])
            /\ Relative(calc.in[1]) # Relative(calc.in[2]) => urls[1] # urls[2]

\* C35: on the local gate no release is stuck for good: none waits for
\* room in the channel of a timer that has fired, has left its loop and
\* waits for the timer-slot mutex that this release holds.
C35_ReleaseNotStuck ==
    \A t \in Tasks :
        ~(/\ gate = "local"
          /\ pc[t] = "release_send"
          /\ Head(slot_lock[arg[t].bucket]) = t
          /\ timer[arg[t].bucket].state = "fired"
          /\ Len(timer[arg[t].bucket].chan) = TimerChannelCapacity)

\* C36: a bucket of the local gate never becomes unclaimable for good:
\* whenever it has no permit, a window timer is set for it or a request
\* that holds one of its units is still on its way to release, so a later
\* claim returns.
C36_BucketStaysClaimable ==
    \A b \in Buckets :
        (gate = "local" /\ b \in buckets /\ ready[b] = 0) =>
            \/ timer[b].state # "none"
            \/ \E t \in Tasks :
                  /\ b \in msg[t].route
                  /\ msg[t].claimOk
                  /\ pc[t] \in {"exec_ack", "exec_http", "release_lock", "release_send"}

\* C37: on the shared gate a claim that waits for a rest_ready message
\* keeps waiting or goes back to the script, however many messages are
\* broadcast meanwhile: it never returns from the wait.
C37_WaiterNeverFails ==
    [][\A t \in Tasks :
          (gate = "shared" /\ pc[t] = "claim_recv") =>
              pc'[t] \in {"claim_recv", "claim_script"}]_vars

\* C39: a message is acknowledged at most once while it is handled,
\* whether claim succeeded, claim failed or no request could be built.
C39_AcknowledgedAtMostOnce ==
    \A t \in Tasks : msg[t].acks <= 1

====
